---- MODULE Spec2Model ----
(***************************************************************************)
(* Alertmanager configuration lifecycle of Grafana's unified alerting:     *)
(*   - the notification policy (route tree) service,                       *)
(*       src/pkg/services/ngalert/provisioning/notification_policies.go    *)
(*   - the multi-org Alertmanager orchestrator, src/unnamed/part_000       *)
(*                                                                         *)
(* Handlers are pure operators over the stores (they return the error kind *)
(* and the stores as the handler leaves them); one action per handler      *)
(* applies the operator to inputs drawn from small sets.                   *)
(***************************************************************************)
EXTENDS Integers, Sequences, FiniteSets, Bags, TLC

VARIABLES
    store,      \* configuration store: org -> NoConfig or the latest stored document
    prov,       \* provenance store: org -> (route name -> provenance), records only
    rcall,      \* the call in flight on the route service: inputs, error kind, returned route
    live,       \* org -> the document the org's live Alertmanager runs
    perms,      \* receiver permissions: org -> resource UIDs that hold permissions
    mcall,      \* the call in flight on the orchestrator: inputs, error, collaborator calls
    uidf,       \* assignReceiverConfigsUIDs on its own: the frame of the running call
    history,    \* configuration history: org -> the applied rows in full, latest first
    gcall,      \* the read call in flight on the orchestrator: inputs, error, result
    xcall,      \* concurrent calls on the extra configuration: caller -> its position and locals
    wcall,      \* concurrent calls on the route service: caller -> its position and locals
    scall,      \* concurrent SaveAndApplyAlertmanagerConfiguration calls: caller -> position and locals
    dcall,      \* concurrent SaveAndApplyDefaultConfig calls: caller -> position and locals
    mtx,        \* moa.alertmanagersMtx: the callers holding it shared, and the writer's state
    sync        \* syncQuery: the running call's position and locals

(***************************************************************************)
(* Bounds                                                                  *)
(***************************************************************************)
\* user-supplied routing subtrees are numbered 1..MaxTree
MaxTree == 1
\* a posted configuration, and a stored document, has at most MaxReceivers receivers
MaxReceivers == 2
\* a batch given to assignReceiverConfigsUIDs on its own has at most MaxBatch receivers
MaxBatch == 2
\* the configuration history of an org has at most MaxRows rows
MaxRows == 2

(***************************************************************************)
(* Values                                                                  *)
(***************************************************************************)
Orgs == {"org1", "org2"}
\* the orgs requests are issued for
ReqOrgs == {"org1"}

NoConfig == [none |-> TRUE]

ProvenanceNone == ""
ProvenanceAPI == "api"
ProvenanceFile == "file"
Provenances == {ProvenanceNone, ProvenanceAPI, ProvenanceFile}

UserDefinedRoutingTreeName == "user-defined"
RouteNames == {UserDefinedRoutingTreeName, "r1"}

\* A routing subtree: its identity, whether Validate() accepts it, and whether
\* it clashes with an extra configuration when the two are merged.
Subtree(id, valid, clash) == [id |-> id, valid |-> valid, clash |-> clash]
\* the route of settings.DefaultConfiguration
DefaultRoute == Subtree(0, TRUE, FALSE)
InputSubtrees ==
    {Subtree(i, TRUE, c) : i \in 1..MaxTree, c \in BOOLEAN} \cup {Subtree(1, FALSE, FALSE)}

\* version "" (no version given)
NoVersion == 0
\* the version token of a managed route: a fingerprint of its subtree
Fingerprint(t) == 1 + 2 * t.id + (IF t.clash THEN 1 ELSE 0)
Versions == {NoVersion} \cup {Fingerprint(t) : t \in InputSubtrees \cup {DefaultRoute}}

ManagedRoute(name, t, p) ==
    [name |-> name, subtree |-> t, version |-> Fingerprint(t), provenance |-> p]
\* a nil *ManagedRoute
NilRoute == [name |-> "<nil>", subtree |-> DefaultRoute, version |-> NoVersion, provenance |-> ProvenanceNone]

\* faults of the collaborators a call can meet (at most one per call)
RouteFaults == {"none", "get", "getProvenance", "save", "writeProvenance"}

(***************************************************************************)
(* Collaborators of the route service                                      *)
(***************************************************************************)
\* subtree.Validate()
Validate(t) == t.valid

\* a lookup that falls back on the user-defined tree
RevGetManagedRouteFallback(rev, name) ==
    IF name \in DOMAIN rev.routes
    THEN ManagedRoute(name, rev.routes[name], ProvenanceNone)
    ELSE ManagedRoute(UserDefinedRoutingTreeName, rev.routes[UserDefinedRoutingTreeName],
                      ProvenanceNone)
\* revision.GetManagedRoute(name): the named route of the revision, or nil
RevGetManagedRoute(rev, name) ==
    IF name \in DOMAIN rev.routes
    THEN ManagedRoute(name, rev.routes[name], ProvenanceNone)
    ELSE NilRoute

\* an update that leaves the revision as it is
RevUpdateNamedRouteKeep(rev, name, t) == rev
\* revision.UpdateNamedRoute(name, subtree)
RevUpdateNamedRoute(rev, name, t) ==
    [rev EXCEPT !.routes = [n \in DOMAIN rev.routes |-> IF n = name THEN t ELSE rev.routes[n]]]

\* revision.DeleteManagedRoute(name)
RevDeleteManagedRoute(rev, name) ==
    [rev EXCEPT !.routes = [n \in (DOMAIN rev.routes) \ {name} |-> rev.routes[n]]]

\* revision.CreateManagedRoute(name, subtree)
RevCreateManagedRoute(rev, name, t) ==
    [rev EXCEPT !.routes = [n \in (DOMAIN rev.routes) \cup {name} |->
                               IF n = name THEN t ELSE rev.routes[n]]]

\* a merge that accepts everything
MergedOkAlways(rev) == TRUE
\* revision.Config.GetMergedAlertmanagerConfig() succeeds
MergedOk(rev) ==
    rev.extra = <<>> \/ \A n \in DOMAIN rev.routes : ~rev.routes[n].clash

\* provenanceStore.GetProvenance: none when the store holds no record
GetProvenance(ps, org, name) ==
    IF name \in DOMAIN ps[org] THEN ps[org][name] ELSE ProvenanceNone

\* a store that drops the write
SetProvenanceDropped(ps, org, name, p) == ps
\* provenanceStore.SetProvenance
SetProvenance(ps, org, name, p) ==
    [ps EXCEPT ![org] = [n \in (DOMAIN ps[org]) \cup {name} |->
                            IF n = name THEN p ELSE ps[org][n]]]

\* a store that keeps the record
DeleteProvenanceKeep(ps, org, name) == ps
\* provenanceStore.DeleteProvenance
DeleteProvenance(ps, org, name) ==
    [ps EXCEPT ![org] = [n \in (DOMAIN ps[org]) \ {name} |-> ps[org][n]]]

\* a validator that lets every transition pass
ValidateProvenanceAny(from, to) == TRUE
\* the transition validator the service is built with
ValidateProvenance(from, to) == from = ProvenanceNone \/ from = to

(***************************************************************************)
(* NotificationPolicyService                                               *)
(***************************************************************************)
\* what a handler returns: the error kind ("ok": nil), the returned route, and
\* the stores as it leaves them
Outcome(err, ret, cs, ps) ==
    [err |-> err, ret |-> ret, rets |-> <<>>, cs |-> cs, ps |-> ps]

\* checkOptimisticConcurrency: TRUE when it returns nil
CheckOptimisticConcurrencyNoCheck(current, desiredVersion) == TRUE
CheckOptimisticConcurrencyStrict(current, desiredVersion) == current.version = desiredVersion
CheckOptimisticConcurrency(current, desiredVersion) ==
    IF desiredVersion = NoVersion
    THEN TRUE
    ELSE current.version = desiredVersion

\* the function the handlers pass to InTransaction: configStore.Save, then the
\* write on the provenance store; the error kind and the stores as the
\* function leaves them inside the transaction
TxBody(cs, ps, newCs, newPs, fault) ==
    IF fault = "save"
    THEN [err |-> "saveFailed", cs |-> cs, ps |-> ps]
    ELSE IF fault = "writeProvenance"
    THEN [err |-> "writeProvenanceFailed", cs |-> newCs, ps |-> ps]
    ELSE [err |-> "ok", cs |-> newCs, ps |-> newPs]

\* a transaction manager that keeps what was written before the error
InTransactionNoRollback(cs, ps, newCs, newPs, fault, ret) ==
    LET body == TxBody(cs, ps, newCs, newPs, fault) IN
    IF body.err # "ok"
    THEN Outcome("txError", NilRoute, body.cs, body.ps)
    ELSE Outcome("ok", ret, body.cs, body.ps)
\* xact.InTransaction: what the function wrote becomes visible when it
\* returns nil, and is rolled back when it returns an error
InTransaction(cs, ps, newCs, newPs, fault, ret) ==
    LET body == TxBody(cs, ps, newCs, newPs, fault) IN
    IF body.err # "ok"
    THEN Outcome("txError", NilRoute, cs, ps)
    ELSE Outcome("ok", ret, body.cs, body.ps)

\* a store that saves whatever it is given
SaveAcceptsAlways(current, revision) == TRUE
\* configStore.Save(revision) on a store that has changed since the revision
\* was read: the store compares the revision's concurrency token with the
\* stored configuration and refuses a revision that is out of date
SaveAccepts(current, revision) == current = revision

\* name == "" stands for the user-defined tree
RouteName(name0) == IF name0 = "" THEN UserDefinedRoutingTreeName ELSE name0

GetManagedRoute(cs, ps, org, name0, fault) ==
    LET name == RouteName(name0) IN
    IF fault = "get" \/ cs[org] = NoConfig
    THEN Outcome("storeError", NilRoute, cs, ps)
    ELSE LET route == RevGetManagedRoute(cs[org], name) IN
         IF route = NilRoute
         THEN Outcome("notFound", NilRoute, cs, ps)
         ELSE IF fault = "getProvenance"
         THEN Outcome("provStoreError", NilRoute, cs, ps)
         ELSE Outcome("ok", [route EXCEPT !.provenance = GetProvenance(ps, org, name)], cs, ps)

\* the order managedRoutes.Sort() puts the routes in
RouteOrder == <<UserDefinedRoutingTreeName, "r1">>
\* rev.GetManagedRoutes(), sorted
RevGetManagedRoutes(rev) ==
    LET names == SelectSeq(RouteOrder, LAMBDA n : n \in DOMAIN rev.routes) IN
    [i \in 1..Len(names) |-> ManagedRoute(names[i], rev.routes[names[i]], ProvenanceNone)]
\* provenanceStore.GetProvenances: the records of the org's routes
GetProvenances(ps, org) == ps[org]
\* a lookup that finds no record
ProvenanceOfNone(provenances, id) == ProvenanceNone
\* provenances[mr.ResourceID()], none when there is no entry
ProvenanceOf(provenances, id) ==
    IF id \in DOMAIN provenances THEN provenances[id] ELSE ProvenanceNone

GetManagedRoutes(cs, ps, org, fault) ==
    IF fault = "get" \/ cs[org] = NoConfig
    THEN Outcome("storeError", NilRoute, cs, ps)
    ELSE IF fault = "getProvenance"
    THEN Outcome("provStoreError", NilRoute, cs, ps)
    ELSE LET provenances == GetProvenances(ps, org)
             managedRoutes == RevGetManagedRoutes(cs[org])
         IN
         [Outcome("ok", NilRoute, cs, ps) EXCEPT
             !.rets = [i \in 1..Len(managedRoutes) |->
                          [managedRoutes[i] EXCEPT
                              !.provenance = ProvenanceOf(provenances, managedRoutes[i].name)]]]

UpdateManagedRoute(cs, ps, org, name0, subtree, p, version, fault) ==
    LET name == RouteName(name0) IN
    IF ~Validate(subtree)
    THEN Outcome("invalidFormat", NilRoute, cs, ps)
    ELSE IF fault = "get" \/ cs[org] = NoConfig
    THEN Outcome("storeError", NilRoute, cs, ps)
    ELSE LET revision == cs[org]
             existing == RevGetManagedRoute(revision, name)
         IN
         IF existing = NilRoute
         THEN Outcome("getExistingFailed", NilRoute, cs, ps)
         ELSE IF ~CheckOptimisticConcurrency(existing, version)
         THEN Outcome("versionConflict", NilRoute, cs, ps)
         ELSE IF fault = "getProvenance"
         THEN Outcome("provStoreError", NilRoute, cs, ps)
         ELSE LET storedProvenance == GetProvenance(ps, org, name) IN
              IF ~ValidateProvenance(storedProvenance, p)
              THEN Outcome("provenanceInvalid", NilRoute, cs, ps)
              ELSE LET newRev == RevUpdateNamedRoute(revision, name, subtree)
                       updated == ManagedRoute(name, subtree, storedProvenance)
                   IN
                   IF ~MergedOk(newRev)
                   THEN Outcome("mergeInvalid", NilRoute, cs, ps)
                   ELSE InTransaction(cs, ps, [cs EXCEPT ![org] = newRev],
                                      SetProvenance(ps, org, name, p), fault, updated)

\* the revision DeleteManagedRoute saves: the user-defined tree is reset to the
\* route of the default configuration, any other tree is removed
DeletedRevisionRemoveAlways(revision, name) == RevDeleteManagedRoute(revision, name)
DeletedRevision(revision, name) ==
    IF name = UserDefinedRoutingTreeName
    THEN RevUpdateNamedRoute(revision, UserDefinedRoutingTreeName, DefaultRoute)
    ELSE RevDeleteManagedRoute(revision, name)

DeleteManagedRoute(cs, ps, org, name0, p, version, fault) ==
    LET name == RouteName(name0) IN
    IF fault = "get" \/ cs[org] = NoConfig
    THEN Outcome("storeError", NilRoute, cs, ps)
    ELSE LET revision == cs[org]
             existing == RevGetManagedRoute(revision, name)
         IN
         IF existing = NilRoute
         THEN Outcome("notFound", NilRoute, cs, ps)
         ELSE IF ~CheckOptimisticConcurrency(existing, version)
         THEN Outcome("versionConflict", NilRoute, cs, ps)
         ELSE IF fault = "getProvenance"
         THEN Outcome("provStoreError", NilRoute, cs, ps)
         ELSE IF ~ValidateProvenance(GetProvenance(ps, org, name), p)
         THEN Outcome("provenanceInvalid", NilRoute, cs, ps)
         ELSE LET newRev == DeletedRevision(revision, name) IN
              IF ~MergedOk(newRev)
              THEN Outcome("mergeInvalid", NilRoute, cs, ps)
              ELSE InTransaction(cs, ps, [cs EXCEPT ![org] = newRev],
                                 DeleteProvenance(ps, org, name), fault, NilRoute)

CreateManagedRoute(cs, ps, org, name, subtree, p, fault) ==
    IF ~Validate(subtree)
    THEN Outcome("invalidFormat", NilRoute, cs, ps)
    ELSE IF fault = "get" \/ cs[org] = NoConfig
    THEN Outcome("storeError", NilRoute, cs, ps)
    ELSE LET revision == cs[org] IN
         IF name \in DOMAIN revision.routes
         THEN Outcome("routeExists", NilRoute, cs, ps)
         ELSE LET newRev == RevCreateManagedRoute(revision, name, subtree) IN
              IF ~MergedOk(newRev)
              THEN Outcome("mergeInvalid", NilRoute, cs, ps)
              ELSE InTransaction(cs, ps, [cs EXCEPT ![org] = newRev],
                                 SetProvenance(ps, org, name, p), fault,
                                 ManagedRoute(name, subtree, ProvenanceNone))


\* what the policy-tree handlers return: a routing tree and a version, kept
\* in the shape of a managed route without a name
PolicyTree(t, version) ==
    [name |-> "", subtree |-> t, version |-> version, provenance |-> ProvenanceNone]
\* r.AsAMRoute()
AsAMRoute(r) == r.subtree

GetPolicyTree(cs, ps, org, fault) ==
    LET r == GetManagedRoute(cs, ps, org, UserDefinedRoutingTreeName, fault) IN
    IF r.err # "ok" THEN r
    ELSE [r EXCEPT !.ret = PolicyTree(AsAMRoute(r.ret), r.ret.version)]

UpdatePolicyTree(cs, ps, org, tree, p, version, fault) ==
    LET r == UpdateManagedRoute(cs, ps, org, UserDefinedRoutingTreeName, tree, p, version,
                                fault)
    IN
    IF r.err # "ok" THEN r
    ELSE [r EXCEPT !.ret = PolicyTree(AsAMRoute(r.ret), r.ret.version)]

\* a reset that names the version of some tree
ResetVersionGiven == Fingerprint(DefaultRoute)
\* the version ResetPolicyTree deletes with: ""
ResetVersion == NoVersion

\* ResetPolicyTree: the route it returns is parsed from the default
\* configuration, not read back
ResetPolicyTree(cs, ps, org, provenance, fault) ==
    LET r == DeleteManagedRoute(cs, ps, org, UserDefinedRoutingTreeName, provenance,
                                ResetVersion, fault)
    IN
    IF r.err # "ok" THEN r
    ELSE [r EXCEPT !.ret = PolicyTree(DefaultRoute, NoVersion)]


(***************************************************************************)
(* Stored documents and posted configurations                              *)
(***************************************************************************)
DefaultReceiverName == "grafana-default-email"
ReceiverNames == {"A", "B", DefaultReceiverName}

\* legacy_storage.NameToUid: the resource UID of a receiver name
NameToUid(name) ==
    CASE name = "A" -> "uid:A"
      [] name = "B" -> "uid:B"
      [] name = DefaultReceiverName -> "uid:grafana-default-email"

\* an extra configuration: its identifier and its content
Extra(id, body) == [id |-> id, body |-> body]
ExtraIds == {"x", "y"}
ExtraConfigs == {Extra(id, b) : id \in ExtraIds, b \in {1, 2}}

\* sequences over S of length at most n
RECURSIVE SeqsUpTo(_, _)
SeqsUpTo(S, n) ==
    IF n = 0 THEN {<<>>}
    ELSE LET shorter == SeqsUpTo(S, n - 1) IN
         shorter \cup {Append(q, x) : q \in {t \in shorter : Len(t) = n - 1}, x \in S}

\* A stored document (the raw AlertmanagerConfiguration of a store row), kept
\* as what the handlers read back from it: whether it parses ("ok"), parses
\* only as far as the receiver names ("badOther": some other section is
\* invalid) or is no JSON at all ("badJson"); its receiver names in order; its
\* extra configurations; its managed routes.
Doc(shape, names, extra, routes) ==
    [shape |-> shape, recv |-> names, extra |-> extra, routes |-> routes]
DefaultRoutes == [n \in {UserDefinedRoutingTreeName} |-> DefaultRoute]
\* settings.DefaultConfiguration
DefaultDoc == Doc("ok", <<DefaultReceiverName>>, <<>>, DefaultRoutes)
\* a row written by some other version of the schema
LegacyDoc == Doc("badJson", <<>>, <<>>, DefaultRoutes)

\* a Load that accepts every document
LoadOkAlways(doc) == TRUE
\* Load(raw) succeeds
LoadOk(doc) == doc.shape = "ok"

\* a posted receiver: its name and the UIDs of its Grafana-managed integrations
\* ("": no UID yet); a receiver of another type has none
Receiver(name, uids) == [name |-> name, grafana |-> uids]
\* a PostableUserConfig
Config(inhibit, recv) == [inhibit |-> inhibit, recv |-> recv]
\* what the live Alertmanager stores for a configuration it has applied
Serialize(cfg) ==
    Doc("ok", [i \in 1..Len(cfg.recv) |-> cfg.recv[i].name], <<>>, DefaultRoutes)

(***************************************************************************)
(* extractReceiverNames, cleanPermissions                                  *)
(***************************************************************************)
\* an extraction that needs the whole document to be valid
ExtractOkStrict(doc) == doc.shape = "ok"
\* extractReceiverNames returns no error
ExtractOk(doc) == doc.shape # "badJson"
\* an extraction that loses the first receiver
ExtractReceiverNamesSkipFirst(doc) == {doc.recv[i] : i \in 2..Len(doc.recv)}
\* the set extractReceiverNames returns
ExtractReceiverNames(doc) == {doc.recv[i] : i \in 1..Len(doc.recv)}

PermsOf(doc) == {NameToUid(n) : n \in ExtractReceiverNames(doc)}

\* a call on a collaborator
Ev(call, arg) == [call |-> call, arg |-> arg]
PermCalls == {"DeleteResourcePermissions", "SetDefaultPermissions"}

\* the elements of a set, one after the other (the order of a Go map range is
\* not specified; nothing below reads the order among the names of one loop)
RECURSIVE SeqOfSet(_)
SeqOfSet(S) ==
    IF S = {} THEN <<>>
    ELSE LET x == CHOOSE y \in S : TRUE IN <<x>> \o SeqOfSet(S \ {x})

\* the receivers whose permissions are deleted, and those that get defaults
DeletedReceiversNone(previous, new) == {}
DeletedReceivers(previous, new) == previous \ new
AddedReceiversAllNew(previous, new) == new
AddedReceivers(previous, new) == new \ previous

\* a cleanup that does not scope the adapter calls by org
CleanPermissionsEveryOrg(pm, org, previousConfig, newReceiverNames, fault) ==
    IF ~ExtractOk(previousConfig)
    THEN [err |-> "extractPreviousFailed", events |-> <<>>, pm |-> pm]
    ELSE LET previous == ExtractReceiverNames(previousConfig)
             delUids == {NameToUid(n) : n \in previous \ newReceiverNames}
             addUids == {NameToUid(n) : n \in newReceiverNames \ previous}
         IN
         [err |-> "ok", events |-> <<>>,
          pm |-> [o \in DOMAIN pm |-> (pm[o] \ delUids) \cup addUids]]
\* cleanPermissions: the error kind, the permission-adapter calls it makes,
\* and the permissions afterwards. A failing DeleteResourcePermissions is
\* collected and the loop goes on; what SetDefaultPermissions returns is dropped.
CleanPermissions(pm, org, previousConfig, newReceiverNames, fault) ==
    IF ~ExtractOk(previousConfig)
    THEN [err |-> "extractPreviousFailed", events |-> <<>>, pm |-> pm]
    ELSE LET previous == ExtractReceiverNames(previousConfig)
             deleted == SeqOfSet(DeletedReceivers(previous, newReceiverNames))
             added == SeqOfSet(AddedReceivers(previous, newReceiverNames))
             delUids == {NameToUid(deleted[i]) : i \in 1..Len(deleted)}
             addUids == {NameToUid(added[i]) : i \in 1..Len(added)}
             afterDelete == IF fault = "deletePerm" THEN pm[org] ELSE pm[org] \ delUids
             afterSet == IF fault = "setPerm" THEN afterDelete ELSE afterDelete \cup addUids
         IN
         [err |-> IF fault = "deletePerm" /\ deleted # <<>> THEN "deletePermFailed" ELSE "ok",
          events |-> [i \in 1..Len(deleted) |->
                         Ev("DeleteResourcePermissions", NameToUid(deleted[i]))]
                     \o [i \in 1..Len(added) |->
                            Ev("SetDefaultPermissions", NameToUid(added[i]))],
          pm |-> [pm EXCEPT ![org] = afterSet]]

(***************************************************************************)
(* assignReceiverConfigsUIDs                                               *)
(***************************************************************************)
\* retries := 5
Retries == 5

\* The frame of a call: the batch as it was passed in, the batch c as it is
\* now, the receiver r and the integration g the loops stand at, the retry counter i, the UIDs seen, the number of UIDs
\* generated for the integration at hand, the largest such number so far, and
\* whether the call runs, has returned nil ("ok") or the error ("failed").
Frame(c) ==
    [given |-> c, c |-> c, r |-> 1, g |-> 1, i |-> 0, seen |-> {}, calls |-> 0,
     maxCalls |-> 0, status |-> "run"]
NoFrame == [Frame(<<>>) EXCEPT !.status = "none"]

\* the integration at hand lacks a UID and the retry loop still runs: the
\* next step calls the generator
AtGenerate(f) ==
    /\ f.status = "run"
    /\ f.r <= Len(f.c)
    /\ f.g <= Len(f.c[f.r].grafana)
    /\ f.c[f.r].grafana[f.g] = ""
    /\ f.i < Retries

\* _, ok := seenUIDs[gen]
CollidesNever(gen, seen) == FALSE
\* a check that misses one UID
CollidesForgetful(gen, seen) == gen \in seen \ {"u3"}
Collides(gen, seen) == gen \in seen

\* one step of assignReceiverConfigsUIDs; gen is what util.GenerateShortUID()
\* returns if the step calls it
UidStep(f, gen) ==
    IF f.status # "run" THEN f
    ELSE IF f.r > Len(f.c)
    THEN \* the outer loop is over: return nil
         [f EXCEPT !.status = "ok"]
    ELSE IF f.g > Len(f.c[f.r].grafana)
    THEN \* the inner loop is over (or the receiver is of another type)
         [f EXCEPT !.r = @ + 1, !.g = 1]
    ELSE IF f.c[f.r].grafana[f.g] = ""
    THEN IF f.i < Retries
         THEN \* gen := util.GenerateShortUID()
              IF ~Collides(gen, f.seen)
              THEN [f EXCEPT !.c[f.r].grafana[f.g] = gen, !.calls = @ + 1,
                             !.maxCalls = IF f.calls + 1 > @ THEN f.calls + 1 ELSE @]
              ELSE [f EXCEPT !.i = @ + 1, !.calls = @ + 1,
                             !.maxCalls = IF f.calls + 1 > @ THEN f.calls + 1 ELSE @]
         ELSE \* all attempts have failed
              [f EXCEPT !.status = "failed"]
    ELSE \* seenUIDs[gr.UID] = struct{}{}, next integration
         [f EXCEPT !.seen = @ \cup {f.c[f.r].grafana[f.g]}, !.g = @ + 1, !.i = 0, !.calls = 0]

\* the whole call, the generator returning gens[r][n] at its n-th call for
\* an integration of receiver r
RECURSIVE RunAssign(_, _)
RunAssign(f, gens) ==
    IF f.status # "run" THEN f
    ELSE RunAssign(UidStep(f, IF AtGenerate(f) THEN gens[f.r][f.calls + 1] ELSE ""), gens)

AssignReceiverConfigsUIDs(c, gens) == RunAssign(Frame(c), gens)

(***************************************************************************)
(* MultiOrgAlertmanager                                                    *)
(***************************************************************************)
\* what a handler returns: the error kind ("ok": nil), the public data of the
\* error, the calls made on the live Alertmanager and on the permission
\* adapter, in order, whether cleanPermissions was called, the frame
\* assignReceiverConfigsUIDs ended in, and the stores as the handler leaves them
MOut(err, data, events, assign, cs, lv, pm) ==
    [err |-> err, data |-> data, events |-> events, cleaned |-> FALSE, assign |-> assign,
     cs |-> cs, lv |-> lv, pm |-> pm]

\* faults of the collaborators a call can meet (at most one per call)
AmFaults == {"amReject", "amReceiverInUse", "amIntervalInUse"}
\* the receiver (time interval) a rule refers to, named by the Alertmanager's error
AmReference == "A"

\* am.SaveAndApplyConfig(cfg) returns an error
ApplyFails(fault) == fault \in AmFaults

\* a translation that makes the same error of every failed apply
ApplyErrorRejected(fault) == "rejected"
\* the error SaveAndApplyAlertmanagerConfiguration makes of a failed apply
ApplyError(fault) ==
    CASE fault = "amReceiverInUse" -> "receiverInUse"
      [] fault = "amIntervalInUse" -> "timeIntervalInUse"
      [] OTHER -> "rejected"

\* len(config.AlertmanagerConfig.InhibitRules) > 0
HasInhibitRulesNever(config) == FALSE
HasInhibitRules(config) == config.inhibit > 0

\* err != nil of assignReceiverConfigsUIDs
AssignFailedNever(f) == FALSE
AssignFailed(f) == f.status = "failed"

\* the variant that returns the error of cleanPermissions
ReconcilePropagating(events, assign, cs, lv, pm, org, previousLoaded, previousConfig, newOk, newNames, fault) ==
    IF previousLoaded /\ newOk
    THEN LET clean == CleanPermissions(pm, org, previousConfig, newNames, fault) IN
         [MOut(clean.err, "", events \o clean.events, assign, cs, lv, clean.pm)
             EXCEPT !.cleaned = TRUE]
    ELSE MOut("reconcileFailed", "", events, assign, cs, lv, pm)
\* the closing part shared by the three handlers that reconcile permissions:
\* cleanPermissions runs only when loading the previous configuration (and,
\* where the new names are extracted from a document, that extraction) gave
\* no error; its own error is logged, not returned
Reconcile(events, assign, cs, lv, pm, org, previousLoaded, previousConfig, newOk, newNames, fault) ==
    IF previousLoaded /\ newOk
    THEN LET clean == CleanPermissions(pm, org, previousConfig, newNames, fault) IN
         [MOut("ok", "", events \o clean.events, assign, cs, lv, clean.pm)
             EXCEPT !.cleaned = TRUE]
    ELSE MOut("ok", "", events, assign, cs, lv, pm)

\* the variant that reconciles before it applies
ApplyAndReconcileCleanFirst(cs, lv, pm, org, previousConfig, assign, assigned, fault) ==
    LET newNames == {assigned.recv[i].name : i \in 1..Len(assigned.recv)}
        clean == IF previousConfig = NoConfig
                 THEN [err |-> "ok", events |-> <<>>, pm |-> pm]
                 ELSE CleanPermissions(pm, org, previousConfig, newNames, fault)
    IN
    IF ApplyFails(fault)
    THEN MOut(ApplyError(fault), IF fault = "amReject" THEN "" ELSE AmReference,
              clean.events \o <<Ev("SaveAndApplyConfig", "error")>>, assign, cs, lv, clean.pm)
    ELSE [MOut("ok", "", clean.events \o <<Ev("SaveAndApplyConfig", "ok")>>, assign,
               [cs EXCEPT ![org] = Serialize(assigned)],
               [lv EXCEPT ![org] = Serialize(assigned)], clean.pm)
             EXCEPT !.cleaned = previousConfig # NoConfig]
\* SaveAndApplyAlertmanagerConfiguration from am.SaveAndApplyConfig on
ApplyAndReconcile(cs, lv, pm, org, previousConfig, assign, assigned, fault) ==
    LET newNames == {assigned.recv[i].name : i \in 1..Len(assigned.recv)} IN
    IF ApplyFails(fault)
    THEN MOut(ApplyError(fault), IF fault = "amReject" THEN "" ELSE AmReference,
              <<Ev("SaveAndApplyConfig", "error")>>, assign, cs, lv, pm)
    ELSE Reconcile(<<Ev("SaveAndApplyConfig", "ok")>>, assign,
                   [cs EXCEPT ![org] = Serialize(assigned)],
                   [lv EXCEPT ![org] = Serialize(assigned)],
                   pm, org, previousConfig # NoConfig, previousConfig, TRUE, newNames, fault)

SaveAndApplyAlertmanagerConfiguration(cs, lv, pm, org, config, gens, fault) ==
    IF HasInhibitRules(config)
    THEN MOut("inhibitRules", "", <<>>, NoFrame, cs, lv, pm)
    ELSE IF fault = "getLatest"
    THEN MOut("getLatestFailed", "", <<>>, NoFrame, cs, lv, pm)
    ELSE IF fault = "crypto"
    THEN MOut("processSecureSettingsFailed", "", <<>>, NoFrame, cs, lv, pm)
    ELSE LET previousConfig == cs[org]
             assign == AssignReceiverConfigsUIDs(config.recv, gens)
             assigned == [config EXCEPT !.recv = assign.c]
         IN
         IF AssignFailed(assign)
         THEN MOut("assignUidsFailed", "", <<>>, assign, cs, lv, pm)
         ELSE IF fault = "amLookup"
         THEN MOut("amLookupFailed", "", <<>>, assign, cs, lv, pm)
         ELSE ApplyAndReconcile(cs, lv, pm, org, previousConfig, assign, assigned, fault)

SaveAndApplyDefaultConfig(cs, lv, pm, org, fault) ==
    IF fault \in {"amLookup", "amNotReady"}
    THEN \* alertmanagerForOrg: any error is returned, "not ready" too
         MOut(IF fault = "amNotReady" THEN "amNotReady" ELSE "amLookupFailed", "", <<>>,
              NoFrame, cs, lv, pm)
    ELSE LET previousConfig == cs[org]
             previousLoaded == fault # "getLatest" /\ previousConfig # NoConfig
         IN
         IF ApplyFails(fault)
         THEN MOut("applyDefaultFailed", "", <<Ev("SaveAndApplyDefaultConfig", "error")>>,
                   NoFrame, cs, lv, pm)
         ELSE \* the defaulted configuration is read back from the store
              Reconcile(<<Ev("SaveAndApplyDefaultConfig", "ok")>>, NoFrame,
                        [cs EXCEPT ![org] = DefaultDoc], [lv EXCEPT ![org] = DefaultDoc],
                        pm, org, previousLoaded, previousConfig,
                        fault # "getLatestAfter", ExtractReceiverNames(DefaultDoc), fault)

\* the variant that reads the latest configuration after the apply: the
\* "previous" configuration then is the row itself
ActivateHistoricalConfigurationReadsAfter(cs, lv, pm, org, row, fault) ==
    IF fault = "getHistorical"
    THEN MOut("getHistoricalFailed", "", <<>>, NoFrame, cs, lv, pm)
    ELSE IF ~LoadOk(row)
    THEN MOut("unmarshalFailed", "", <<>>, NoFrame, cs, lv, pm)
    ELSE IF fault = "amLookup"
    THEN MOut("amLookupFailed", "", <<>>, NoFrame, cs, lv, pm)
    ELSE IF ApplyFails(fault)
    THEN MOut("rejected", "", <<Ev("SaveAndApplyConfig", "error")>>, NoFrame, cs, lv, pm)
    ELSE Reconcile(<<Ev("SaveAndApplyConfig", "ok")>>, NoFrame,
                   [cs EXCEPT ![org] = row], [lv EXCEPT ![org] = row],
                   pm, org, fault # "getLatest", row,
                   ExtractOk(row), ExtractReceiverNames(row), fault)
\* row: what GetHistoricalConfiguration returns for the id
ActivateHistoricalConfiguration(cs, lv, pm, org, row, fault) ==
    IF fault = "getHistorical"
    THEN MOut("getHistoricalFailed", "", <<>>, NoFrame, cs, lv, pm)
    ELSE IF ~LoadOk(row)
    THEN MOut("unmarshalFailed", "", <<>>, NoFrame, cs, lv, pm)
    ELSE IF fault = "amLookup"
    THEN MOut("amLookupFailed", "", <<>>, NoFrame, cs, lv, pm)
    ELSE LET previousConfig == cs[org]
             previousLoaded == fault # "getLatest" /\ previousConfig # NoConfig
         IN
         IF ApplyFails(fault)
         THEN MOut("rejected", "", <<Ev("SaveAndApplyConfig", "error")>>, NoFrame, cs, lv, pm)
         ELSE Reconcile(<<Ev("SaveAndApplyConfig", "ok")>>, NoFrame,
                        [cs EXCEPT ![org] = row], [lv EXCEPT ![org] = row],
                        pm, org, previousLoaded, previousConfig,
                        ExtractOk(row), ExtractReceiverNames(row), fault)

\* the modifyFn of SaveAndApplyExtraConfiguration: the identifier it refuses
\* for ("" when it accepts), and the list it returns
OtherIdentifiersNone(configs, extraConfig) == <<>>
OtherIdentifiers(configs, extraConfig) ==
    SelectSeq(configs, LAMBDA c : c.id # extraConfig.id)
\* a modifyFn that appends the configuration to the list
ReplacedAppending(configs, extraConfig) == configs \o <<extraConfig>>
\* the list the modifyFn of SaveAndApplyExtraConfiguration returns when it
\* accepts: the supplied configuration alone
Replaced(configs, extraConfig) == <<extraConfig>>
\* a modifyFn that returns the empty list
FilterOutAll(configs, identifier) == <<>>
\* the modifyFn of DeleteExtraConfiguration
FilterOut(configs, identifier) == SelectSeq(configs, LAMBDA c : c.id # identifier)

\* a modification that puts the list into the default configuration
WithExtraConfigsOnDefault(cfg, modified) == [DefaultDoc EXCEPT !.extra = modified]
\* cfg.ExtraConfigs, err = modifyFn(cfg.ExtraConfigs): the loaded
\* configuration with the list modifyFn returned
WithExtraConfigs(cfg, modified) == [cfg EXCEPT !.extra = modified]

\* modifyAndApplyExtraConfiguration; refused: the identifier modifyFn refused
\* for ("": it returned no error), modified: the list it returned
ModifyAndApplyExtraConfiguration(cs, lv, pm, org, refused, modified, fault) ==
    IF fault = "getLatest" \/ cs[org] = NoConfig
    THEN MOut("getCurrentFailed", "", <<>>, NoFrame, cs, lv, pm)
    ELSE IF ~LoadOk(cs[org])
    THEN MOut("unmarshalFailed", "", <<>>, NoFrame, cs, lv, pm)
    ELSE IF refused # ""
    THEN MOut("multipleExtraConfigsUnsupported", refused, <<>>, NoFrame, cs, lv, pm)
    ELSE IF fault = "amLookup"
    THEN MOut("amLookupFailed", "", <<>>, NoFrame, cs, lv, pm)
    ELSE IF ApplyFails(fault)
    THEN MOut("rejected", "", <<Ev("SaveAndApplyConfig", "error")>>, NoFrame, cs, lv, pm)
    ELSE LET doc == WithExtraConfigs(cs[org], modified) IN
         MOut("ok", "", <<Ev("SaveAndApplyConfig", "ok")>>, NoFrame,
              [cs EXCEPT ![org] = doc], [lv EXCEPT ![org] = doc], pm)

SaveAndApplyExtraConfiguration(cs, lv, pm, org, extraConfig, fault) ==
    LET configs == IF cs[org] # NoConfig THEN cs[org].extra ELSE <<>>
        others == OtherIdentifiers(configs, extraConfig)
    IN
    ModifyAndApplyExtraConfiguration(cs, lv, pm, org,
        IF others # <<>> THEN others[1].id ELSE "", Replaced(configs, extraConfig), fault)

DeleteExtraConfiguration(cs, lv, pm, org, identifier, fault) ==
    LET configs == IF cs[org] # NoConfig THEN cs[org].extra ELSE <<>> IN
    ModifyAndApplyExtraConfiguration(cs, lv, pm, org, "", FilterOut(configs, identifier), fault)

\* faults an ApplyConfig call can meet: the lookup of the org's instance fails
\* or reports "not ready", the instance rejects the configuration, or both of
\* the latter
ApplyConfigFaults == {"none", "amLookup", "amNotReady", "amReject", "amNotReadyReject"}
\* moa.AlertmanagerFor(orgId) reports "alertmanager not ready"
LookupNotReady(fault) == fault \in {"amNotReady", "amNotReadyReject"}
\* a lookup that takes "not ready" for fatal as well
LookupFatalAlsoNotReady(fault) == fault = "amLookup" \/ LookupNotReady(fault)
\* err != nil && !errors.Is(err, ErrAlertmanagerNotReady)
LookupFatal(fault) == fault = "amLookup"
\* am.ApplyConfig(ctx, dbConfig) returns an error: the instance refuses the
\* configuration, or the document does not load
InstanceApplyFails(dbConfig, fault) ==
    fault \in {"amReject", "amNotReadyReject"} \/ ~LoadOk(dbConfig)

\* ApplyConfig: the stored configuration is given by the caller and is not
\* saved again; the instance runs it when its ApplyConfig returns nil
ApplyConfig(cs, lv, pm, org, dbConfig, fault) ==
    IF LookupFatal(fault)
    THEN MOut("amLookupFailed", "", <<>>, NoFrame, cs, lv, pm)
    ELSE IF InstanceApplyFails(dbConfig, fault)
    THEN MOut("applyFailed", "", <<Ev("ApplyConfig", "error")>>, NoFrame, cs, lv, pm)
    ELSE MOut("ok", "", <<Ev("ApplyConfig", "ok")>>, NoFrame, cs,
              [lv EXCEPT ![org] = dbConfig], pm)

(***************************************************************************)
(* Reading configurations: gettableUserConfigFromAMConfigString,           *)
(* GetAlertmanagerConfiguration, GetAppliedAlertmanagerConfigurations      *)
(***************************************************************************)
\* A stored secure setting is a ciphertext; Sealed(v) is the ciphertext of v
\* and Garbled one that does not decrypt.
Sealed(v) == <<"sealed", v>>
Garbled == <<"garbled">>
\* getDecryptedSecret(pr, k): whether it returns no error, and the value
DecryptOk(e) == e[1] = "sealed"
Decrypted(e) == e[2]

SecureKeys == {"password", "token"}
Secrets == {"s1", "s2"}
\* the SecureSettings of an integration: the password missing, empty, set or
\* garbled; the token missing or set
SecureSettings ==
    {<<>>} \cup
    {[k \in ks |-> IF k = "password" THEN pw ELSE Sealed("s1")] :
        ks \in (SUBSET SecureKeys) \ {{}},
        pw \in {Sealed(""), Sealed("s1"), Sealed("s2"), Garbled}}
\* a Grafana-managed integration as stored
Integration(uid, secure) == [uid |-> uid, secure |-> secure]
\* a row of the configuration history in full: its id, its shape (as for Doc),
\* its receivers with their integrations, its extra configurations
Row(id, shape, recv, extra) == [id |-> id, shape |-> shape, recv |-> recv, extra |-> extra]
RowBodies ==
    {[shape |-> "ok", recv |-> <<[name |-> "A", grafana |-> <<Integration("u1", sec)>>]>>,
      extra |-> <<>>] : sec \in SecureSettings}
        \cup {[shape |-> sh, recv |-> <<>>, extra |-> <<>>] : sh \in {"badOther", "badJson"}}
\* the histories an org can have: the row ids count down from the latest
RECURSIVE Histories(_)
Histories(n) ==
    IF n = 0 THEN {<<>>}
    ELSE Histories(n - 1)
            \cup {<<Row(n, b.shape, b.recv, b.extra)>> \o h :
                     b \in RowBodies, h \in {x \in Histories(n - 1) : Len(x) = n - 1}}

\* the secureFields of a GettableGrafanaReceiver: a key is there (true) when
\* its decrypted value is not empty
\* a variant that keeps the decrypted values
SecureFieldsLeaking(pr) == {Decrypted(pr.secure[k]) : k \in DOMAIN pr.secure} \ {""}
SecureFields(pr) == {k \in DOMAIN pr.secure : Decrypted(pr.secure[k]) # ""}
GettableGrafanaReceiver(pr) == [uid |-> pr.uid, secureFields |-> SecureFields(pr)]
GettableApiReceiver(recv) ==
    [name |-> recv.name,
     grafana |-> [i \in 1..Len(recv.grafana) |-> GettableGrafanaReceiver(recv.grafana[i])]]

\* a GettableUserConfig: the receivers, the extra configurations, the
\* provenance of the route, whether the provenances of templates and mute
\* timings are filled in, whether autogenerated routes were added
Gettable(receivers, extra, routeProvenance, merged) ==
    [receivers |-> receivers, extra |-> extra, routeProvenance |-> routeProvenance,
     merged |-> merged, autogen |-> FALSE]
\* definitions.GettableUserConfig{}
EmptyGettable == Gettable(<<>>, <<>>, ProvenanceNone, FALSE)

\* faults of the collaborators a read can meet (at most one per call)
ConvertFaults ==
    {"none", "decryptExtra", "encrypt", "routeProv", "cpProvs", "tmplProvs", "mtProvs"}

\* a merge that returns the empty configuration and no error whichever lookup fails
MergeProvenanceSilent(ps, config, org, fault) ==
    IF fault \in {"routeProv", "cpProvs", "tmplProvs", "mtProvs"}
    THEN [err |-> "ok", cfg |-> EmptyGettable]
    ELSE [err |-> "ok",
          cfg |-> [config EXCEPT
                      !.routeProvenance = GetProvenance(ps, org, UserDefinedRoutingTreeName),
                      !.merged = TRUE]]
\* mergeProvenance: the error kind and the configuration it returns
MergeProvenance(ps, config, org, fault) ==
    IF fault \in {"routeProv", "cpProvs"}
    THEN [err |-> "provStoreError", cfg |-> EmptyGettable]
    ELSE IF fault \in {"tmplProvs", "mtProvs"}
    THEN \* return definitions.GettableUserConfig{}, nil
         [err |-> "ok", cfg |-> EmptyGettable]
    ELSE [err |-> "ok",
          cfg |-> [config EXCEPT
                      !.routeProvenance = GetProvenance(ps, org, UserDefinedRoutingTreeName),
                      !.merged = TRUE]]

\* some secure setting of the document does not decrypt
SomeGarbled(raw) ==
    \E r \in 1..Len(raw.recv) : \E g \in 1..Len(raw.recv[r].grafana) :
        \E k \in DOMAIN raw.recv[r].grafana[g].secure :
            ~DecryptOk(raw.recv[r].grafana[g].secure[k])

GettableUserConfigFromAMConfigString(ps, org, raw, fault) ==
    IF ~LoadOk(raw)
    THEN [err |-> "unmarshalFailed", cfg |-> EmptyGettable]
    ELSE IF fault = "decryptExtra"
    THEN [err |-> "decryptExtraFailed", cfg |-> EmptyGettable]
    ELSE IF fault = "encrypt"
    THEN [err |-> "encryptFailed", cfg |-> EmptyGettable]
    ELSE IF SomeGarbled(raw)
    THEN [err |-> "decryptSecretFailed", cfg |-> EmptyGettable]
    ELSE MergeProvenance(ps,
            Gettable([r \in 1..Len(raw.recv) |-> GettableApiReceiver(raw.recv[r])],
                     raw.extra, ProvenanceNone, FALSE),
            org, fault)

\* what a read handler returns: the error kind, the configuration
\* (GetAlertmanagerConfiguration) and the list (GetAppliedAlertmanagerConfigurations)
GOut(err, cfg, list) == [err |-> err, cfg |-> cfg, list |-> list]

GetAlertmanagerConfiguration(rows, ps, org, withAutogen, fault) ==
    IF fault = "getLatest" \/ rows[org] = <<>>
    THEN GOut("getLatestFailed", EmptyGettable, <<>>)
    ELSE LET got == GettableUserConfigFromAMConfigString(ps, org, rows[org][1], fault) IN
         IF got.err # "ok"
         THEN GOut(got.err, EmptyGettable, <<>>)
         ELSE IF withAutogen
         THEN IF fault = "autogen"
              THEN GOut("autogenFailed", EmptyGettable, <<>>)
              ELSE GOut("ok", [got.cfg EXCEPT !.autogen = TRUE], <<>>)
         ELSE GOut("ok", got.cfg, <<>>)

\* configStore.GetAppliedConfigurations(org, limit): the latest limit rows
GetAppliedConfigurations(rows, org, limit) ==
    SubSeq(rows[org], 1, IF limit < Len(rows[org]) THEN limit ELSE Len(rows[org]))

\* a GettableHistoricUserConfig
GettableHistoric(id, cfg) == [id |-> id, cfg |-> cfg]

\* a loop that stops at the first row that does not convert
RECURSIVE HistoricConfigsUntilInvalid(_, _, _, _)
HistoricConfigsUntilInvalid(ps, org, configs, fault) ==
    IF configs = <<>> THEN <<>>
    ELSE LET got == GettableUserConfigFromAMConfigString(ps, org, Head(configs), fault) IN
         IF got.err # "ok" THEN <<>>
         ELSE <<GettableHistoric(Head(configs).id, got.cfg)>>
                  \o HistoricConfigsUntilInvalid(ps, org, Tail(configs), fault)
\* the loop of GetAppliedAlertmanagerConfigurations over the rows
RECURSIVE HistoricConfigs(_, _, _, _)
HistoricConfigs(ps, org, configs, fault) ==
    IF configs = <<>> THEN <<>>
    ELSE LET got == GettableUserConfigFromAMConfigString(ps, org, Head(configs), fault)
             rest == HistoricConfigs(ps, org, Tail(configs), fault)
         IN
         IF got.err # "ok" THEN rest
         ELSE <<GettableHistoric(Head(configs).id, got.cfg)>> \o rest

GetAppliedAlertmanagerConfigurations(rows, ps, org, limit, fault) ==
    IF fault = "fetch"
    THEN GOut("getAppliedFailed", EmptyGettable, <<>>)
    ELSE GOut("ok", EmptyGettable,
              HistoricConfigs(ps, org, GetAppliedConfigurations(rows, org, limit), fault))

readVars == <<history, gcall>>
GCall(op, org, withAutogen, limit, fault, out) ==
    [op |-> op, org |-> org, withAutogen |-> withAutogen, limit |-> limit, fault |-> fault,
     err |-> out.err, cfg |-> out.cfg, list |-> out.list]
NoGCall ==
    [op |-> "none", org |-> "org1", withAutogen |-> FALSE, limit |-> 0, fault |-> "none",
     err |-> "ok", cfg |-> EmptyGettable, list |-> <<>>]
\* no history is kept and no read is in flight
ReadIdle ==
    /\ history = [o \in Orgs |-> <<>>]
    /\ gcall = NoGCall

(***************************************************************************)
(* Route service: state machine                                            *)
(***************************************************************************)
vars == <<store, prov, rcall, live, perms, mcall, uidf, history, gcall, xcall, wcall, scall,
          dcall, mtx, sync>>
moaVars == <<live, perms, mcall>>
routeVars == <<prov, rcall>>

EmptyConfig == Config(0, <<>>)
NoExtra == Extra("", 0)
MCall(op, org, cfg, gens, row, extra, fault, out) ==
    [op |-> op, org |-> org, cfg |-> cfg, gens |-> gens, row |-> row, extra |-> extra,
     fault |-> fault, err |-> out.err, data |-> out.data, events |-> out.events,
     cleaned |-> out.cleaned, assign |-> out.assign]
NoMCall ==
    [op |-> "none", org |-> "org1", cfg |-> EmptyConfig, gens |-> <<>>, row |-> DefaultDoc,
     extra |-> NoExtra, fault |-> "none", err |-> "ok", data |-> "", events |-> <<>>,
     cleaned |-> FALSE, assign |-> NoFrame]

\* the callers that run concurrently
Callers == {"c1", "c2"}
lateVars == <<scall, dcall, mtx, sync>>
raceVars == <<xcall, wcall, lateVars>>
\* a caller of the extra-configuration handlers: where it is in
\* modifyAndApplyExtraConfiguration, the handler and its argument, the
\* configuration it loaded and modified, and the error it returned
XCall(pc, op, org, extra, cfg, err) ==
    [pc |-> pc, op |-> op, org |-> org, extra |-> extra, cfg |-> cfg, err |-> err]
NoXCall == XCall("idle", "none", "org1", NoExtra, NoConfig, "ok")
\* a caller of the route service: where it is in the handler, the handler and
\* its arguments, the revision it read, the revision it is about to save, and
\* the error it returned
WCall(pc, op, org, name, subtree, p, version, rev, newRev, err) ==
    [pc |-> pc, op |-> op, org |-> org, name |-> name, subtree |-> subtree, p |-> p,
     version |-> version, rev |-> rev, newRev |-> newRev, err |-> err]
NoWCall ==
    WCall("idle", "none", "org1", "", DefaultRoute, ProvenanceNone, NoVersion, NoConfig,
          NoConfig, "ok")
\* a caller of SaveAndApplyAlertmanagerConfiguration: where it is in the
\* handler, its arguments, the previous configuration it read and whether that
\* read gave no error, the callers that had returned when it entered, and the
\* error it returned
SCall(pc, org, cfg, previous, loaded, after, err) ==
    [pc |-> pc, org |-> org, cfg |-> cfg, previous |-> previous, loaded |-> loaded,
     after |-> after, err |-> err]
NoSCall == SCall("idle", "org1", EmptyConfig, NoConfig, FALSE, {}, "ok")
\* a caller of SaveAndApplyDefaultConfig: where it is in the handler, the org,
\* the previous configuration it read and whether that read gave no error, the
\* fault it meets, and the error it returned
DCall(pc, org, previous, loaded, fault, err) ==
    [pc |-> pc, org |-> org, previous |-> previous, loaded |-> loaded, fault |-> fault,
     err |-> err]
NoDCall == DCall("idle", "org1", NoConfig, FALSE, "none", "ok")
\* sync.RWMutex: nobody holds it and no writer waits
FreeMutex == [readers |-> {}, writer |-> "idle"]
\* a syncQuery call: where it is, logsTimeout, attemptCount, the polls made,
\* the status of the last result and the error returned
SyncCall(pc, logsTimeout, attemptCount, polls, status, err) ==
    [pc |-> pc, logsTimeout |-> logsTimeout, attemptCount |-> attemptCount, polls |-> polls,
     status |-> status, err |-> err]
NoSync == SyncCall("idle", 0, 0, 0, "", "ok")
\* no concurrent caller is active
RaceIdle ==
    /\ xcall = [c \in Callers |-> NoXCall]
    /\ wcall = [c \in Callers |-> NoWCall]
    /\ scall = [c \in Callers |-> NoSCall]
    /\ dcall = [c \in Callers |-> NoDCall]
    /\ mtx = FreeMutex
    /\ sync = NoSync

RCall(op, org, name, subtree, p, version, fault, out) ==
    [op |-> op, org |-> org, name |-> name, subtree |-> subtree, p |-> p,
     version |-> version, fault |-> fault, err |-> out.err, ret |-> out.ret,
     rets |-> out.rets]

NoCall == [op |-> "none", org |-> "org1", name |-> "", subtree |-> DefaultRoute,
           p |-> ProvenanceNone, version |-> NoVersion, fault |-> "none", err |-> "ok",
           ret |-> NilRoute, rets |-> <<>>]

\* the document every org starts with: the default configuration
InitialDoc(extra) == [DefaultDoc EXCEPT !.extra = extra]
\* a document whose extra configuration was saved after a route that does not
\* merge with it
ClashingDoc ==
    [InitialDoc(<<Extra("x", 1)>>) EXCEPT
        !.routes = [n \in RouteNames |->
                       IF n = "r1" THEN Subtree(1, TRUE, TRUE) ELSE DefaultRoute]]

RouteInit ==
    /\ \E d \in {InitialDoc(<<>>), InitialDoc(<<Extra("x", 1)>>), ClashingDoc} :
          store = [o \in Orgs |-> d]
    /\ prov = [o \in Orgs |-> <<>>]
    /\ rcall = NoCall
    /\ live = store
    /\ perms = [o \in Orgs |-> PermsOf(DefaultDoc)]
    /\ mcall = NoMCall
    /\ RaceIdle
    /\ ReadIdle
    /\ uidf = NoFrame

\* the handler's caller has taken the response: the service is idle again
Respond ==
    /\ rcall # NoCall
    /\ rcall' = NoCall
    /\ UNCHANGED <<raceVars, store, prov, moaVars, uidf, readVars>>

DoGet ==
    /\ rcall = NoCall
    /\ \E org \in ReqOrgs, name \in RouteNames \cup {""}, fault \in {"none", "get", "getProvenance"} :
        LET out == GetManagedRoute(store, prov, org, name, fault) IN
        /\ rcall' = RCall("Get", org, name, DefaultRoute, ProvenanceNone, NoVersion, fault, out)
        /\ UNCHANGED <<raceVars, store, prov, moaVars, uidf, readVars>>

DoList ==
    /\ rcall = NoCall
    /\ \E org \in ReqOrgs, fault \in {"none", "get", "getProvenance"} :
        LET out == GetManagedRoutes(store, prov, org, fault) IN
        /\ rcall' = RCall("List", org, "", DefaultRoute, ProvenanceNone, NoVersion, fault, out)
        /\ UNCHANGED <<raceVars, store, prov, moaVars, uidf, readVars>>

DoCreate ==
    /\ rcall = NoCall
    /\ \E org \in ReqOrgs, name \in RouteNames, t \in InputSubtrees, p \in Provenances,
       fault \in RouteFaults \ {"getProvenance"} :
        LET out == CreateManagedRoute(store, prov, org, name, t, p, fault) IN
        /\ rcall' = RCall("Create", org, name, t, p, NoVersion, fault, out)
        /\ store' = out.cs
        /\ prov' = out.ps
        /\ UNCHANGED <<raceVars, moaVars, uidf, readVars>>

DoUpdate ==
    /\ rcall = NoCall
    /\ \E org \in ReqOrgs, name \in RouteNames \cup {""}, t \in InputSubtrees, p \in Provenances,
       version \in Versions, fault \in RouteFaults :
        LET out == UpdateManagedRoute(store, prov, org, name, t, p, version, fault) IN
        /\ rcall' = RCall("Update", org, name, t, p, version, fault, out)
        /\ store' = out.cs
        /\ prov' = out.ps
        /\ UNCHANGED <<raceVars, moaVars, uidf, readVars>>

DoDelete ==
    /\ rcall = NoCall
    /\ \E org \in ReqOrgs, name \in RouteNames \cup {""}, p \in Provenances,
       version \in Versions, fault \in RouteFaults :
        LET out == DeleteManagedRoute(store, prov, org, name, p, version, fault) IN
        /\ rcall' = RCall("Delete", org, name, DefaultRoute, p, version, fault, out)
        /\ store' = out.cs
        /\ prov' = out.ps
        /\ UNCHANGED <<raceVars, moaVars, uidf, readVars>>

DoGetPolicyTree ==
    /\ rcall = NoCall
    /\ \E org \in ReqOrgs, fault \in {"none", "get", "getProvenance"} :
        LET out == GetPolicyTree(store, prov, org, fault) IN
        /\ rcall' = RCall("GetPolicyTree", org, UserDefinedRoutingTreeName, DefaultRoute,
                          ProvenanceNone, NoVersion, fault, out)
        /\ UNCHANGED <<raceVars, store, prov, moaVars, uidf, readVars>>

DoUpdatePolicyTree ==
    /\ rcall = NoCall
    /\ \E org \in ReqOrgs, t \in InputSubtrees, p \in Provenances, version \in Versions,
          fault \in RouteFaults :
        LET out == UpdatePolicyTree(store, prov, org, t, p, version, fault) IN
        /\ rcall' = RCall("UpdatePolicyTree", org, UserDefinedRoutingTreeName, t, p, version,
                          fault, out)
        /\ store' = out.cs
        /\ prov' = out.ps
        /\ UNCHANGED <<raceVars, moaVars, uidf, readVars>>

DoResetPolicyTree ==
    /\ rcall = NoCall
    /\ \E org \in ReqOrgs, p \in Provenances, fault \in RouteFaults :
        LET out == ResetPolicyTree(store, prov, org, p, fault) IN
        /\ rcall' = RCall("ResetPolicyTree", org, UserDefinedRoutingTreeName, DefaultRoute, p,
                          NoVersion, fault, out)
        /\ store' = out.cs
        /\ prov' = out.ps
        /\ UNCHANGED <<raceVars, moaVars, uidf, readVars>>

RouteNext ==
    \/ DoGet \/ DoList \/ DoCreate \/ DoUpdate \/ DoDelete
    \/ DoGetPolicyTree \/ DoUpdatePolicyTree \/ DoResetPolicyTree
    \/ Respond


(***************************************************************************)
(* Orchestrator: state machines                                            *)
(***************************************************************************)
MoaFaults ==
    {"none", "getLatest", "crypto", "amLookup", "amNotReady", "deletePerm", "setPerm"}
        \cup AmFaults

\* posted configurations: every receiver has one Grafana-managed integration,
\* with a UID or without
PostedReceivers == {Receiver(n, <<u>>) : n \in ReceiverNames, u \in {"", "u1"}}
PostedConfigs ==
    {Config(0, recv) : recv \in SeqsUpTo(PostedReceivers, MaxReceivers)}
        \cup {Config(1, <<Receiver("A", <<"">>), Receiver("B", <<"u1">>)>>)}

\* what the generator returns on the attempts for one integration: the same
\* value every time, or another value at the last attempt
NoGenList == [i \in 1..Retries |-> ""]
GenLists == {[i \in 1..Retries |-> "u1"],
             [i \in 1..Retries |-> IF i < Retries THEN "u1" ELSE "u2"]}
\* the generator's behaviours for a posted configuration
GensFor(cfg) ==
    {gens \in [1..Len(cfg.recv) -> GenLists \cup {NoGenList}] :
        \A r \in 1..Len(cfg.recv) :
            (gens[r] = NoGenList) <=> (cfg.recv[r].grafana[1] # "")}

\* rows of the configuration history: those that load, and rows that do not
\* (nothing is read from a row that does not load)
HistoryRows ==
    {Doc("ok", names, <<>>, DefaultRoutes) : names \in SeqsUpTo(ReceiverNames, MaxReceivers)}
        \cup {Doc("badOther", <<"A">>, <<>>, DefaultRoutes), LegacyDoc}
\* the faults the handlers other than SaveAndApplyAlertmanagerConfiguration
\* tell apart: they make one error of whatever the Alertmanager returns
PlainFaults ==
    {"none", "getLatest", "amLookup", "amNotReady", "amReject", "deletePerm", "setPerm"}


Apply(out) ==
    /\ store' = out.cs
    /\ live' = out.lv
    /\ perms' = out.pm
    /\ UNCHANGED <<raceVars, routeVars, uidf, readVars>>

\* the stored documents an org can start with, and the permissions that go
\* with each: those of its receivers
StartDocs == {NoConfig, DefaultDoc, LegacyDoc, Doc("badOther", <<"A">>, <<>>, DefaultRoutes)}
StartPerms(doc) == IF doc = NoConfig THEN {} ELSE PermsOf(doc)

MoaInit ==
    /\ \E d \in StartDocs :
          /\ store = [o \in Orgs |-> d]
          /\ perms = [o \in Orgs |-> StartPerms(d)]
    /\ live = store
    /\ prov = [o \in Orgs |-> <<>>]
    /\ rcall = NoCall
    /\ mcall = NoMCall
    /\ RaceIdle
    /\ ReadIdle
    /\ uidf = NoFrame

\* the handler's caller has taken the response: the orchestrator is idle again
MRespond ==
    /\ mcall.op # "none"
    /\ mcall' = NoMCall
    /\ UNCHANGED <<raceVars, store, live, perms, routeVars, uidf, readVars>>

DoSave ==
    /\ mcall.op = "none"
    /\ \E org \in ReqOrgs, cfg \in PostedConfigs, fault \in MoaFaults :
          \E gens \in GensFor(cfg) :
             /\ LET out == SaveAndApplyAlertmanagerConfiguration(store, live, perms, org, cfg, gens, fault) IN
                /\ mcall' = MCall("Save", org, cfg, gens, DefaultDoc, NoExtra, fault, out)
                /\ Apply(out)

DoDefault ==
    /\ mcall.op = "none"
    /\ \E org \in ReqOrgs, fault \in PlainFaults \cup {"getLatestAfter"} :
          LET out == SaveAndApplyDefaultConfig(store, live, perms, org, fault) IN
          /\ mcall' = MCall("Default", org, EmptyConfig, <<>>, DefaultDoc, NoExtra, fault, out)
          /\ Apply(out)

DoActivate ==
    /\ mcall.op = "none"
    /\ \E org \in ReqOrgs, row \in HistoryRows,
          fault \in PlainFaults \cup {"getHistorical"} :
          LET out == ActivateHistoricalConfiguration(store, live, perms, org, row, fault) IN
          /\ mcall' = MCall("Activate", org, EmptyConfig, <<>>, row, NoExtra, fault, out)
          /\ Apply(out)

MoaNext == DoSave \/ DoDefault \/ DoActivate \/ MRespond

\* the orchestrator's handlers that reconcile permissions
SpecMoa == MoaInit /\ [][MoaNext]_vars

ExtraFaults == {"none", "getLatest", "amLookup", "amNotReady", "amReject"}

\* the stored documents an org can start with: none, one or two extra configurations
ExtraStartDocs ==
    {NoConfig, LegacyDoc}
        \cup {[DefaultDoc EXCEPT !.extra = e] : e \in SeqsUpTo(ExtraConfigs, 1)}
        \cup {[DefaultDoc EXCEPT !.extra = <<Extra("x", 1), Extra("y", 1)>>],
              Doc("ok", <<"A", "B">>, <<Extra("x", 1)>>, DefaultRoutes)}

ExtraInit ==
    /\ \E d \in ExtraStartDocs :
          /\ store = [o \in Orgs |-> d]
          /\ perms = [o \in Orgs |-> StartPerms(d)]
    /\ live = store
    /\ prov = [o \in Orgs |-> <<>>]
    /\ rcall = NoCall
    /\ mcall = NoMCall
    /\ RaceIdle
    /\ ReadIdle
    /\ uidf = NoFrame

DoSaveExtra ==
    /\ mcall.op = "none"
    /\ \E org \in ReqOrgs, extra \in ExtraConfigs, fault \in ExtraFaults :
          LET out == SaveAndApplyExtraConfiguration(store, live, perms, org, extra, fault) IN
          /\ mcall' = MCall("SaveExtra", org, EmptyConfig, <<>>, DefaultDoc, extra, fault, out)
          /\ Apply(out)

DoDeleteExtra ==
    /\ mcall.op = "none"
    /\ \E org \in ReqOrgs, id \in ExtraIds, fault \in ExtraFaults :
          LET out == DeleteExtraConfiguration(store, live, perms, org, id, fault) IN
          /\ mcall' = MCall("DeleteExtra", org, EmptyConfig, <<>>, DefaultDoc, Extra(id, 0), fault, out)
          /\ Apply(out)

ExtraNext == DoSaveExtra \/ DoDeleteExtra \/ DoDefault \/ MRespond

\* the orchestrator's handlers of the extra configuration
SpecExtra == ExtraInit /\ [][ExtraNext]_vars

DoApplyConfig ==
    /\ mcall.op = "none"
    /\ \E org \in ReqOrgs, dbConfig \in HistoryRows, fault \in ApplyConfigFaults :
          LET out == ApplyConfig(store, live, perms, org, dbConfig, fault) IN
          /\ mcall' = MCall("ApplyConfig", org, EmptyConfig, <<>>, dbConfig, NoExtra, fault, out)
          /\ Apply(out)

ApplyNext == DoApplyConfig \/ DoDefault \/ MRespond

\* ApplyConfig next to the handler that stores the default configuration
SpecApply == MoaInit /\ [][ApplyNext]_vars

(***************************************************************************)
(* Extra configurations, concurrent callers: state machine                 *)
(*                                                                         *)
(* modifyAndApplyExtraConfiguration holds no lock between reading the      *)
(* latest configuration and saving the modified one: each caller takes the *)
(* two steps on its own, in any interleaving with the other caller.        *)
(***************************************************************************)
\* the stored documents an org can start with: at most one extra configuration
RaceStartDocs ==
    {NoConfig, LegacyDoc} \cup {[DefaultDoc EXCEPT !.extra = e] : e \in SeqsUpTo(ExtraConfigs, 1)}

XInit ==
    /\ \E d \in RaceStartDocs :
          /\ store = [o \in Orgs |-> d]
          /\ perms = [o \in Orgs |-> StartPerms(d)]
    /\ live = store
    /\ prov = [o \in Orgs |-> <<>>]
    /\ rcall = NoCall
    /\ mcall = NoMCall
    /\ RaceIdle
    /\ ReadIdle
    /\ uidf = NoFrame

\* a caller enters SaveAndApplyExtraConfiguration or DeleteExtraConfiguration
XStart(c) ==
    /\ xcall[c].pc = "idle"
    /\ \E org \in ReqOrgs, op \in {"SaveExtra", "DeleteExtra"}, extra \in ExtraConfigs :
          xcall' = [xcall EXCEPT ![c] = XCall("load", op, org, extra, NoConfig, "ok")]
    /\ UNCHANGED <<store, live, perms, mcall, routeVars, uidf, readVars, wcall, lateVars>>

\* GetLatestAlertmanagerConfiguration, Load and modifyFn: the caller holds the
\* modified configuration, or has returned an error
XLoad(c) ==
    LET x == xcall[c]
        current == store[x.org]
    IN
    /\ x.pc = "load"
    /\ xcall' = [xcall EXCEPT ![c] =
          IF current = NoConfig
          THEN [x EXCEPT !.pc = "done", !.err = "getCurrentFailed"]
          ELSE IF ~LoadOk(current)
          THEN [x EXCEPT !.pc = "done", !.err = "unmarshalFailed"]
          ELSE IF x.op = "SaveExtra" /\ OtherIdentifiers(current.extra, x.extra) # <<>>
          THEN [x EXCEPT !.pc = "done", !.err = "multipleExtraConfigsUnsupported"]
          ELSE [x EXCEPT !.pc = "apply",
                         !.cfg = WithExtraConfigs(current,
                                     IF x.op = "SaveExtra"
                                     THEN Replaced(current.extra, x.extra)
                                     ELSE FilterOut(current.extra, x.extra.id))]]
    /\ UNCHANGED <<store, live, perms, mcall, routeVars, uidf, readVars, wcall, lateVars>>

\* am.SaveAndApplyConfig(cfg): the configuration the caller holds becomes the
\* latest stored one, or the Alertmanager rejects it
XApply(c) ==
    LET x == xcall[c] IN
    /\ x.pc = "apply"
    /\ \E fault \in {"none", "amReject"} :
          IF ApplyFails(fault)
          THEN /\ xcall' = [xcall EXCEPT ![c] = [x EXCEPT !.pc = "done", !.err = "rejected"]]
               /\ UNCHANGED <<store, live>>
          ELSE /\ xcall' = [xcall EXCEPT ![c] = [x EXCEPT !.pc = "done"]]
               /\ store' = [store EXCEPT ![x.org] = x.cfg]
               /\ live' = [live EXCEPT ![x.org] = x.cfg]
    /\ UNCHANGED <<perms, mcall, routeVars, uidf, readVars, wcall, lateVars>>

\* the caller has taken the response
XReturn(c) ==
    /\ xcall[c].pc = "done"
    /\ xcall' = [xcall EXCEPT ![c] = NoXCall]
    /\ UNCHANGED <<store, live, perms, mcall, routeVars, uidf, readVars, wcall, lateVars>>

XNext == \E c \in Callers : XStart(c) \/ XLoad(c) \/ XApply(c) \/ XReturn(c)

\* SaveAndApplyExtraConfiguration and DeleteExtraConfiguration, two callers
SpecExtraRace == XInit /\ [][XNext]_vars

(***************************************************************************)
(* Route service, concurrent callers: state machine                        *)
(*                                                                         *)
(* UpdateManagedRoute and DeleteManagedRoute read the revision, check it   *)
(* (version, stored provenance, merge) and write in a transaction; nothing *)
(* is locked in between, so two callers take these steps in any            *)
(* interleaving.                                                           *)
(***************************************************************************)
\* the stored documents an org can start with: the default tree alone, or
\* with the named route r1
WStartDocs ==
    {InitialDoc(<<>>),
     [InitialDoc(<<>>) EXCEPT
         !.routes = [n \in RouteNames |->
                        IF n = "r1" THEN Subtree(1, TRUE, FALSE) ELSE DefaultRoute]]}

WInit ==
    /\ \E d \in WStartDocs : store = [o \in Orgs |-> d]
    /\ prov = [o \in Orgs |-> <<>>]
    /\ rcall = NoCall
    /\ live = store
    /\ perms = [o \in Orgs |-> PermsOf(DefaultDoc)]
    /\ mcall = NoMCall
    /\ RaceIdle
    /\ ReadIdle
    /\ uidf = NoFrame

\* a caller enters UpdateManagedRoute or DeleteManagedRoute; the subtree of an
\* update is validated before anything is read
WStart(c) ==
    /\ wcall[c].pc = "idle"
    /\ \E org \in ReqOrgs, op \in {"Update", "Delete"}, name \in RouteNames,
          t \in InputSubtrees, p \in Provenances, version \in Versions :
          /\ op = "Delete" => t = Subtree(1, TRUE, FALSE)
          /\ wcall' = [wcall EXCEPT ![c] =
                IF op = "Update" /\ ~Validate(t)
                THEN WCall("done", op, org, name, t, p, version, NoConfig, NoConfig,
                           "invalidFormat")
                ELSE WCall("get", op, org, name, t, p, version, NoConfig, NoConfig, "ok")]
    /\ UNCHANGED <<store, prov, rcall, moaVars, uidf, readVars, xcall, lateVars>>

\* configStore.Get: the caller holds the revision as it is stored now
WGet(c) ==
    LET w == wcall[c] IN
    /\ w.pc = "get"
    /\ wcall' = [wcall EXCEPT ![c] = [w EXCEPT !.pc = "check", !.rev = store[w.org]]]
    /\ UNCHANGED <<store, prov, rcall, moaVars, uidf, readVars, xcall, lateVars>>

\* from the lookup of the route in the revision to the merge check: the
\* handler run on the revision the caller holds and on the provenance store
\* as it is now; the caller is left with the revision to save, or has
\* returned an error
WCheck(c) ==
    LET w == wcall[c]
        held == [store EXCEPT ![w.org] = w.rev]
        out == IF w.op = "Update"
               THEN UpdateManagedRoute(held, prov, w.org, w.name, w.subtree, w.p, w.version,
                                       "none")
               ELSE DeleteManagedRoute(held, prov, w.org, w.name, w.p, w.version, "none")
    IN
    /\ w.pc = "check"
    /\ wcall' = [wcall EXCEPT ![c] =
          IF out.err # "ok"
          THEN [w EXCEPT !.pc = "done", !.err = out.err]
          ELSE [w EXCEPT !.pc = "write", !.newRev = out.cs[w.org]]]
    /\ UNCHANGED <<store, prov, rcall, moaVars, uidf, readVars, xcall, lateVars>>

\* xact.InTransaction: configStore.Save of the revision, then the write on
\* the provenance store; both or neither
WWrite(c) ==
    LET w == wcall[c] IN
    /\ w.pc = "write"
    /\ IF SaveAccepts(store[w.org], w.rev)
       THEN /\ store' = [store EXCEPT ![w.org] = w.newRev]
            /\ prov' = IF w.op = "Update"
                       THEN SetProvenance(prov, w.org, w.name, w.p)
                       ELSE DeleteProvenance(prov, w.org, w.name)
            /\ wcall' = [wcall EXCEPT ![c] = [w EXCEPT !.pc = "done"]]
       ELSE /\ wcall' = [wcall EXCEPT ![c] = [w EXCEPT !.pc = "done", !.err = "txError"]]
            /\ UNCHANGED <<store, prov>>
    /\ UNCHANGED <<rcall, moaVars, uidf, readVars, xcall, lateVars>>

\* the caller has taken the response; each caller makes one call
WReturn(c) ==
    /\ wcall[c].pc = "done"
    /\ wcall' = [wcall EXCEPT ![c] = [wcall[c] EXCEPT !.pc = "returned"]]
    /\ UNCHANGED <<store, prov, rcall, moaVars, uidf, readVars, xcall, lateVars>>

WNext == \E c \in Callers : WStart(c) \/ WGet(c) \/ WCheck(c) \/ WWrite(c) \/ WReturn(c)

\* UpdateManagedRoute and DeleteManagedRoute, two callers with one call each
SpecRouteRace == WInit /\ [][WNext]_vars

(***************************************************************************)
(* SaveAndApplyAlertmanagerConfiguration, concurrent callers: state machine*)
(*                                                                         *)
(* The handler reads the previous configuration, has the Alertmanager save *)
(* and apply the posted one, and reconciles the permissions afterwards; it *)
(* holds no lock over the three, so two callers take them in any           *)
(* interleaving. The adapter calls of one cleanPermissions are one step.   *)
(***************************************************************************)
\* posted configurations whose integrations all carry a UID: one or two receivers
SRaceConfigs ==
    {Config(0, <<Receiver(n, <<"u1">>)>>) : n \in ReceiverNames}
        \cup {Config(0, <<Receiver(DefaultReceiverName, <<"u1">>), Receiver("A", <<"u2">>)>>),
              Config(1, <<Receiver("A", <<"u1">>)>>)}
\* the stored documents an org can start with
SStartDocs == {DefaultDoc, Doc("ok", <<"A">>, <<>>, DefaultRoutes)}

\* a read of the previous configuration that always counts as failed
PreviousLoadedNever(previous) == FALSE
\* cleanPermissionsErr == nil after GetLatestAlertmanagerConfiguration: the
\* store held a configuration
PreviousLoaded(previous) == previous # NoConfig

SInit ==
    /\ \E d \in SStartDocs :
          /\ store = [o \in Orgs |-> d]
          /\ perms = [o \in Orgs |-> StartPerms(d)]
    /\ live = store
    /\ prov = [o \in Orgs |-> <<>>]
    /\ rcall = NoCall
    /\ mcall = NoMCall
    /\ RaceIdle
    /\ ReadIdle
    /\ uidf = NoFrame

\* a caller enters SaveAndApplyAlertmanagerConfiguration
SStart(c) ==
    /\ scall[c].pc = "idle"
    /\ \E org \in ReqOrgs, cfg \in SRaceConfigs :
          scall' = [scall EXCEPT ![c] =
              IF HasInhibitRules(cfg)
              THEN SCall("done", org, cfg, NoConfig, FALSE, {}, "inhibitRules")
              ELSE SCall("read", org, cfg, NoConfig, FALSE,
                         {d \in Callers : scall[d].pc = "returned"}, "ok")]
    /\ UNCHANGED <<store, live, perms, mcall, routeVars, uidf, readVars, xcall, wcall, dcall,
                   mtx, sync>>

\* GetLatestAlertmanagerConfiguration: the caller holds the previous
\* configuration; "no configuration" is tolerated and remembered as the
\* error that later keeps cleanPermissions from running
SRead(c) ==
    LET s == scall[c] IN
    /\ s.pc = "read"
    /\ scall' = [scall EXCEPT ![c] =
          [s EXCEPT !.pc = "apply", !.previous = store[s.org],
                    !.loaded = PreviousLoaded(store[s.org])]]
    /\ UNCHANGED <<store, live, perms, mcall, routeVars, uidf, readVars, xcall, wcall, dcall,
                   mtx, sync>>

\* am.SaveAndApplyConfig(&config): the posted configuration becomes the latest
\* stored one, or the Alertmanager rejects it
SApply(c) ==
    LET s == scall[c] IN
    /\ s.pc = "apply"
    /\ \E fault \in {"none", "amReject"} :
          IF ApplyFails(fault)
          THEN /\ scall' = [scall EXCEPT ![c] =
                      [s EXCEPT !.pc = "done", !.err = ApplyError(fault)]]
               /\ UNCHANGED <<store, live>>
          ELSE /\ scall' = [scall EXCEPT ![c] =
                      [s EXCEPT !.pc = IF s.loaded THEN "clean" ELSE "done"]]
               /\ store' = [store EXCEPT ![s.org] = Serialize(s.cfg)]
               /\ live' = [live EXCEPT ![s.org] = Serialize(s.cfg)]
    /\ UNCHANGED <<perms, mcall, routeVars, uidf, readVars, xcall, wcall, dcall, mtx, sync>>

\* moa.cleanPermissions(ctx, org, previousConfig, newReceiverNames), on the
\* previous configuration the caller read; its error is logged
SClean(c) ==
    LET s == scall[c]
        newReceiverNames == {s.cfg.recv[i].name : i \in 1..Len(s.cfg.recv)}
        clean == CleanPermissions(perms, s.org, s.previous, newReceiverNames, "none")
    IN
    /\ s.pc = "clean"
    /\ perms' = clean.pm
    /\ scall' = [scall EXCEPT ![c] = [s EXCEPT !.pc = "done"]]
    /\ UNCHANGED <<store, live, mcall, routeVars, uidf, readVars, xcall, wcall, dcall, mtx,
                   sync>>

\* the caller has taken the response; each caller makes one call
SReturn(c) ==
    /\ scall[c].pc = "done"
    /\ scall' = [scall EXCEPT ![c] = [scall[c] EXCEPT !.pc = "returned"]]
    /\ UNCHANGED <<store, live, perms, mcall, routeVars, uidf, readVars, xcall, wcall, dcall,
                   mtx, sync>>

SNext == \E c \in Callers : SStart(c) \/ SRead(c) \/ SApply(c) \/ SClean(c) \/ SReturn(c)

\* SaveAndApplyAlertmanagerConfiguration, two callers with one call each
SpecSaveRace == SInit /\ [][SNext]_vars

(***************************************************************************)
(* SaveAndApplyDefaultConfig under alertmanagersMtx: state machine         *)
(*                                                                         *)
(* Two callers run the handler step by step; a writer (whoever adds or     *)
(* removes per-org instances) takes the same mutex exclusively. A pending  *)
(* Lock keeps new readers out, as sync.RWMutex does.                       *)
(***************************************************************************)
\* the faults a SaveAndApplyDefaultConfig call can meet
DefaultFaults ==
    {"none", "amLookup", "amNotReady", "amReject", "getLatest", "getLatestAfter", "deletePerm"}

\* a handler that returns without unlocking
RUnlockNever(m, c) == m
\* defer moa.alertmanagersMtx.RUnlock(), run at every return
RUnlock(m, c) == [m EXCEPT !.readers = @ \ {c}]
\* moa.alertmanagersMtx.RLock() can proceed: no writer holds or awaits the mutex
RLockFree(m) == m.writer = "idle"
RLock(m, c) == [m EXCEPT !.readers = @ \cup {c}]

DInit ==
    /\ \E d \in StartDocs :
          /\ store = [o \in Orgs |-> d]
          /\ perms = [o \in Orgs |-> StartPerms(d)]
    /\ live = store
    /\ prov = [o \in Orgs |-> <<>>]
    /\ rcall = NoCall
    /\ mcall = NoMCall
    /\ RaceIdle
    /\ ReadIdle
    /\ uidf = NoFrame

\* a caller enters SaveAndApplyDefaultConfig
DStart(c) ==
    /\ dcall[c].pc = "idle"
    /\ \E org \in ReqOrgs, fault \in DefaultFaults :
          dcall' = [dcall EXCEPT ![c] = DCall("rlock", org, NoConfig, FALSE, fault, "ok")]
    /\ UNCHANGED <<store, live, perms, mcall, routeVars, uidf, readVars, xcall, wcall, scall,
                   mtx, sync>>

\* moa.alertmanagersMtx.RLock()
DRLock(c) ==
    /\ dcall[c].pc = "rlock"
    /\ RLockFree(mtx)
    /\ mtx' = RLock(mtx, c)
    /\ dcall' = [dcall EXCEPT ![c] = [dcall[c] EXCEPT !.pc = "lookup"]]
    /\ UNCHANGED <<store, live, perms, mcall, routeVars, uidf, readVars, xcall, wcall, scall,
                   sync>>

\* moa.alertmanagerForOrg(orgId): any error is returned
DLookup(c) ==
    LET d == dcall[c] IN
    /\ d.pc = "lookup"
    /\ IF d.fault \in {"amLookup", "amNotReady"}
       THEN /\ dcall' = [dcall EXCEPT ![c] =
                   [d EXCEPT !.pc = "done",
                             !.err = IF d.fault = "amNotReady" THEN "amNotReady"
                                     ELSE "amLookupFailed"]]
            /\ mtx' = RUnlock(mtx, c)
       ELSE /\ dcall' = [dcall EXCEPT ![c] = [d EXCEPT !.pc = "previous"]]
            /\ UNCHANGED mtx
    /\ UNCHANGED <<store, live, perms, mcall, routeVars, uidf, readVars, xcall, wcall, scall,
                   sync>>

\* previousConfig, cleanPermissionsErr := GetLatestAlertmanagerConfiguration
DPrevious(c) ==
    LET d == dcall[c] IN
    /\ d.pc = "previous"
    /\ dcall' = [dcall EXCEPT ![c] =
          [d EXCEPT !.pc = "apply", !.previous = store[d.org],
                    !.loaded = d.fault # "getLatest" /\ store[d.org] # NoConfig]]
    /\ UNCHANGED <<store, live, perms, mcall, routeVars, uidf, readVars, xcall, wcall, scall,
                   mtx, sync>>

\* orgAM.SaveAndApplyDefaultConfig(ctx)
DApply(c) ==
    LET d == dcall[c] IN
    /\ d.pc = "apply"
    /\ IF ApplyFails(d.fault)
       THEN /\ dcall' = [dcall EXCEPT ![c] =
                   [d EXCEPT !.pc = "done", !.err = "applyDefaultFailed"]]
            /\ mtx' = RUnlock(mtx, c)
            /\ UNCHANGED <<store, live>>
       ELSE /\ dcall' = [dcall EXCEPT ![c] = [d EXCEPT !.pc = "reconcile"]]
            /\ store' = [store EXCEPT ![d.org] = DefaultDoc]
            /\ live' = [live EXCEPT ![d.org] = DefaultDoc]
            /\ UNCHANGED mtx
    /\ UNCHANGED <<perms, mcall, routeVars, uidf, readVars, xcall, wcall, scall, sync>>

\* the permission cleanup (its error is logged) and return nil
DReconcile(c) ==
    LET d == dcall[c]
        out == Reconcile(<<>>, NoFrame, store, live, perms, d.org, d.loaded, d.previous,
                         d.fault # "getLatestAfter" /\ store[d.org] # NoConfig,
                         IF store[d.org] # NoConfig
                         THEN ExtractReceiverNames(store[d.org]) ELSE {}, d.fault)
    IN
    /\ d.pc = "reconcile"
    /\ perms' = out.pm
    /\ dcall' = [dcall EXCEPT ![c] = [d EXCEPT !.pc = "done", !.err = out.err]]
    /\ mtx' = RUnlock(mtx, c)
    /\ UNCHANGED <<store, live, mcall, routeVars, uidf, readVars, xcall, wcall, scall, sync>>

\* the caller has taken the response; each caller makes one call
DReturn(c) ==
    /\ dcall[c].pc = "done"
    /\ dcall' = [dcall EXCEPT ![c] = [dcall[c] EXCEPT !.pc = "returned"]]
    /\ UNCHANGED <<store, live, perms, mcall, routeVars, uidf, readVars, xcall, wcall, scall,
                   mtx, sync>>

\* one step of caller c
DStep(c) == DStart(c) \/ DRLock(c) \/ DLookup(c) \/ DPrevious(c) \/ DApply(c)
               \/ DReconcile(c) \/ DReturn(c)

\* the writer calls Lock: from now on it waits for the readers to leave
MtxLock ==
    /\ mtx.writer = "idle"
    /\ mtx' = [mtx EXCEPT !.writer = "waiting"]
    /\ UNCHANGED <<store, live, perms, mcall, routeVars, uidf, readVars, xcall, wcall, scall,
                   dcall, sync>>
\* Lock returns: no reader holds the mutex
MtxAcquire ==
    /\ mtx.writer = "waiting"
    /\ mtx.readers = {}
    /\ mtx' = [mtx EXCEPT !.writer = "held"]
    /\ UNCHANGED <<store, live, perms, mcall, routeVars, uidf, readVars, xcall, wcall, scall,
                   dcall, sync>>
\* the writer calls Unlock
MtxUnlock ==
    /\ mtx.writer = "held"
    /\ mtx' = [mtx EXCEPT !.writer = "idle"]
    /\ UNCHANGED <<store, live, perms, mcall, routeVars, uidf, readVars, xcall, wcall, scall,
                   dcall, sync>>

DNext == (\E c \in Callers : DStep(c)) \/ MtxLock \/ MtxAcquire \/ MtxUnlock

\* SaveAndApplyDefaultConfig, two callers with one call each, and a writer;
\* a caller that can take a step takes it in the end, and so does Lock
SpecDefaultLock ==
    /\ DInit /\ [][DNext]_vars
    /\ \A c \in Callers : WF_vars(DLookup(c) \/ DPrevious(c) \/ DApply(c) \/ DReconcile(c))
    /\ WF_vars(MtxAcquire)

(***************************************************************************)
(* syncQuery (src/pkg/tsdb/cloudwatch/log_sync_query.go): state machine    *)
(*                                                                         *)
(* Durations are counted in ticks of a clock on which time.Second is       *)
(* Second ticks; the products the loop compares stay far below the range   *)
(* of time.Duration.                                                       *)
(***************************************************************************)
\* time.Second
Second == 2
\* logsTimeout is at most MaxTimeout
MaxTimeout == 9
\* the values of ds.Settings.LogsTimeout.Duration: negative, zero, fractions
\* and multiples of a second
Timeouts == (0 - 1)..MaxTimeout

\* the status of a GetQueryResults response
QueryStatuses == {"Scheduled", "Running", "Complete", "Failed", "Cancelled", "Timeout"}
\* isTerminated(res.Status)
IsTerminated(status) == status \in {"Complete", "Failed", "Cancelled", "Timeout"}

\* a comparison that lets the poll at the timeout pass
TimedOutLate(attemptCount, logsTimeout) == attemptCount * Second > logsTimeout
\* time.Duration(attemptCount)*time.Second >= logsTimeout
TimedOut(attemptCount, logsTimeout) == attemptCount * Second >= logsTimeout

SyncInit ==
    /\ store = [o \in Orgs |-> DefaultDoc]
    /\ live = store
    /\ perms = [o \in Orgs |-> PermsOf(DefaultDoc)]
    /\ prov = [o \in Orgs |-> <<>>]
    /\ rcall = NoCall
    /\ mcall = NoMCall
    /\ RaceIdle
    /\ ReadIdle
    /\ uidf = NoFrame

\* syncQuery is called: ds.executeStartQuery returns the query id or an
\* error; attemptCount := 1
SyncStart ==
    /\ sync.pc = "idle"
    /\ \E logsTimeout \in Timeouts, started \in BOOLEAN :
          sync' = IF started
                  THEN SyncCall("wait", logsTimeout, 1, 0, "", "ok")
                  ELSE SyncCall("returned", logsTimeout, 0, 0, "", "startQueryFailed")
    /\ UNCHANGED <<store, live, perms, mcall, routeVars, uidf, readVars, xcall, wcall, scall,
                   dcall, mtx>>

\* for range ticker.C: the ticker delivers a tick
SyncTick ==
    /\ sync.pc = "wait"
    /\ sync' = [sync EXCEPT !.pc = "poll"]
    /\ UNCHANGED <<store, live, perms, mcall, routeVars, uidf, readVars, xcall, wcall, scall,
                   dcall, mtx>>

\* the body of the loop: ds.executeGetQueryResults and the three returns
SyncPoll ==
    /\ sync.pc = "poll"
    /\ \E failed \in BOOLEAN, status \in QueryStatuses :
          sync' =
              IF failed
              THEN [sync EXCEPT !.pc = "returned", !.polls = @ + 1, !.status = "",
                                !.err = "getQueryResultsFailed"]
              ELSE IF IsTerminated(status)
              THEN [sync EXCEPT !.pc = "returned", !.polls = @ + 1, !.status = status]
              ELSE IF TimedOut(sync.attemptCount, sync.logsTimeout)
              THEN [sync EXCEPT !.pc = "returned", !.polls = @ + 1, !.status = status,
                                !.err = "timeoutExceeded"]
              ELSE [sync EXCEPT !.pc = "wait", !.polls = @ + 1, !.status = status,
                                !.attemptCount = @ + 1]
    /\ UNCHANGED <<store, live, perms, mcall, routeVars, uidf, readVars, xcall, wcall, scall,
                   dcall, mtx>>

SyncNext == SyncStart \/ SyncTick \/ SyncPoll

\* one syncQuery call; the ticker keeps ticking and a poll returns
SpecSync ==
    /\ SyncInit /\ [][SyncNext]_vars
    /\ WF_vars(SyncTick) /\ WF_vars(SyncPoll)

(***************************************************************************)
(* assignReceiverConfigsUIDs on its own: state machine                     *)
(***************************************************************************)
\* the UIDs receivers arrive with, and those the generator returns
GivenUIDs == {"u1", "u2"}
GenUIDs == {"u1", "u2", "u3"}
\* batches: receivers with no, one or two Grafana-managed integrations
BatchReceivers == {Receiver("A", uids) : uids \in SeqsUpTo(GivenUIDs \cup {""}, 2)}
Batches == SeqsUpTo(BatchReceivers, MaxBatch)

UidInit ==
    /\ \E c \in Batches : uidf = Frame(c)
    /\ store = [o \in Orgs |-> DefaultDoc]
    /\ live = store
    /\ perms = [o \in Orgs |-> PermsOf(DefaultDoc)]
    /\ prov = [o \in Orgs |-> <<>>]
    /\ rcall = NoCall
    /\ mcall = NoMCall
    /\ RaceIdle
    /\ ReadIdle

\* a step that calls util.GenerateShortUID()
UidGenerate ==
    /\ AtGenerate(uidf)
    /\ \E gen \in GenUIDs : uidf' = UidStep(uidf, gen)
    /\ UNCHANGED <<raceVars, store, live, perms, mcall, routeVars, readVars>>

\* any other step
UidAdvance ==
    /\ uidf.status = "run"
    /\ ~AtGenerate(uidf)
    /\ uidf' = UidStep(uidf, "")
    /\ UNCHANGED <<raceVars, store, live, perms, mcall, routeVars, readVars>>

UidNext == UidGenerate \/ UidAdvance

SpecUID == UidInit /\ [][UidNext]_vars


SpecRoute == RouteInit /\ [][RouteNext]_vars

(***************************************************************************)
(* Reading configurations: state machine                                   *)
(***************************************************************************)
ReadInit ==
    /\ \E h \in Histories(MaxRows) : history = [o \in Orgs |-> h]
    /\ gcall = NoGCall
    /\ store = [o \in Orgs |-> DefaultDoc]
    /\ live = store
    /\ perms = [o \in Orgs |-> PermsOf(DefaultDoc)]
    /\ prov = [o \in Orgs |-> <<>>]
    /\ rcall = NoCall
    /\ mcall = NoMCall
    /\ RaceIdle
    /\ uidf = NoFrame

\* the caller has taken the response
GRespond ==
    /\ gcall.op # "none"
    /\ gcall' = NoGCall
    /\ UNCHANGED <<raceVars, store, live, perms, mcall, routeVars, uidf, history>>

DoGetConfiguration ==
    /\ gcall.op = "none"
    /\ \E org \in ReqOrgs, withAutogen \in BOOLEAN,
          fault \in ConvertFaults \cup {"getLatest", "autogen"} :
          gcall' = GCall("Get", org, withAutogen, 0, fault,
                         GetAlertmanagerConfiguration(history, prov, org, withAutogen, fault))
    /\ UNCHANGED <<raceVars, store, live, perms, mcall, routeVars, uidf, history>>

DoGetApplied ==
    /\ gcall.op = "none"
    /\ \E org \in ReqOrgs, limit \in 0..MaxRows, fault \in ConvertFaults \cup {"fetch"} :
          gcall' = GCall("GetApplied", org, FALSE, limit, fault,
                         GetAppliedAlertmanagerConfigurations(history, prov, org, limit, fault))
    /\ UNCHANGED <<raceVars, store, live, perms, mcall, routeVars, uidf, history>>

ReadNext == DoGetConfiguration \/ DoGetApplied \/ GRespond

\* the orchestrator's handlers that read
SpecRead == ReadInit /\ [][ReadNext]_vars

(***************************************************************************)
(* Both services side by side: state machine                               *)
(*                                                                         *)
(* One call of any handler of the route service or of the orchestrator, on *)
(* stores in which the two orgs hold different things.                     *)
(***************************************************************************)
\* no call is in flight on either service
AllIdle == rcall = NoCall /\ mcall.op = "none" /\ gcall.op = "none"

\* what an org can have stored at the start
OrgDocs ==
    {NoConfig, DefaultDoc,
     [Doc("ok", <<"A", "B">>, <<Extra("x", 1)>>, DefaultRoutes) EXCEPT
         !.routes = [n \in RouteNames |->
                        IF n = "r1" THEN Subtree(1, TRUE, FALSE) ELSE DefaultRoute]]}
\* the provenance records an org can have at the start
OrgProvenances == {<<>>, [n \in {"r1"} |-> ProvenanceAPI]}

\* the configuration history an org can have at the start: one applied row, or none
OrgHistory ==
    <<Row(1, "ok", <<[name |-> "A", grafana |-> <<Integration("u1", <<>>)>>]>>, <<>>)>>
OrgHistories == {<<>>, OrgHistory}

OrgsInit ==
    /\ store \in [Orgs -> OrgDocs]
    /\ live = store
    /\ perms = [o \in Orgs |-> StartPerms(store[o])]
    /\ prov \in [Orgs -> OrgProvenances]
    /\ \E h \in OrgHistories :
          history = [o \in Orgs |-> IF o \in ReqOrgs THEN h ELSE OrgHistory]
    /\ rcall = NoCall
    /\ mcall = NoMCall
    /\ gcall = NoGCall
    /\ RaceIdle
    /\ uidf = NoFrame

\* the caller calls one handler
OrgsNext ==
    \/ AllIdle /\ DoGet
    \/ AllIdle /\ DoList
    \/ AllIdle /\ DoCreate
    \/ AllIdle /\ DoUpdate
    \/ AllIdle /\ DoDelete
    \/ AllIdle /\ DoGetPolicyTree
    \/ AllIdle /\ DoUpdatePolicyTree
    \/ AllIdle /\ DoResetPolicyTree
    \/ AllIdle /\ DoSave
    \/ AllIdle /\ DoDefault
    \/ AllIdle /\ DoActivate
    \/ AllIdle /\ DoApplyConfig
    \/ AllIdle /\ DoSaveExtra
    \/ AllIdle /\ DoDeleteExtra
    \/ AllIdle /\ DoGetConfiguration
    \/ AllIdle /\ DoGetApplied

SpecOrgs == OrgsInit /\ [][OrgsNext]_vars

(***************************************************************************)
(* Claims on the orchestrator (under SpecMoa)                              *)
(***************************************************************************)
\* the step is a call of the handler op
Called(op) == mcall.op = "none" /\ mcall'.op = op

\* the handlers that reconcile permissions, and the call each makes on the
\* live Alertmanager
Reconciling == {"Save", "Activate", "Default"}
ApplyCall(op) == IF op = "Default" THEN "SaveAndApplyDefaultConfig" ELSE "SaveAndApplyConfig"

\* the calls on the permission adapter among the events, and how often one occurs
PermEvents(events) == SelectSeq(events, LAMBDA e : e.call \in PermCalls)
Count(events, e) == Cardinality({i \in DOMAIN events : events[i] = e})

\* C3: SaveAndApplyAlertmanagerConfiguration called with a configuration that
\* has inhibition rules returns an error and calls neither the live
\* Alertmanager nor the permission adapter; the stored configuration, the
\* live configuration and the permissions are as they were.
C3_InhibitRulesRefused ==
    [][(Called("Save") /\ mcall'.cfg.inhibit > 0)
          => /\ mcall'.err # "ok"
             /\ mcall'.events = <<>>
             /\ store' = store
             /\ live' = live
             /\ perms' = perms]_vars

\* C3 witness: a configuration with an inhibition rule was refused although
\* nothing else stood in its way
C3_Witness ==
    /\ mcall.op = "Save"
    /\ mcall.cfg.inhibit > 0
    /\ mcall.fault = "none"
    /\ mcall.err = "inhibitRules"

\* C4: when cleanPermissions is called with a previous configuration whose
\* receiver names P can be extracted and with the new names N, it calls
\* DeleteResourcePermissions once for each name of P \ N,
\* SetDefaultPermissions once for each name of N \ P, and makes no other
\* call on the permission adapter.
C4_CleanPermissionsCalls ==
    [][(mcall.op = "none" /\ mcall'.op \in Reconciling /\ mcall'.cleaned
            /\ ExtractOk(store[mcall'.org]))
          => LET P == ExtractReceiverNames(store[mcall'.org])
                 N == ExtractReceiverNames(store'[mcall'.org])
                 calls == PermEvents(mcall'.events)
             IN
             /\ \A n \in ReceiverNames :
                   /\ Count(calls, Ev("DeleteResourcePermissions", NameToUid(n)))
                         = IF n \in P \ N THEN 1 ELSE 0
                   /\ Count(calls, Ev("SetDefaultPermissions", NameToUid(n)))
                         = IF n \in N \ P THEN 1 ELSE 0
             /\ Len(calls) = Cardinality(P \ N) + Cardinality(N \ P)]_vars

\* C4 witness: a save removed receiver A, added the default receiver and kept
\* receiver B, whose permissions nothing touched
C4_Witness ==
    /\ mcall.op = "Save"
    /\ mcall.cleaned
    /\ PermEvents(mcall.events)
          = <<Ev("DeleteResourcePermissions", NameToUid("A")),
              Ev("SetDefaultPermissions", NameToUid(DefaultReceiverName))>>
    /\ ExtractReceiverNames(store[mcall.org]) = {"B", DefaultReceiverName}
    /\ NameToUid("B") \in perms[mcall.org]

\* for some receiver that came without a UID, every candidate the generator
\* returned had been seen on an earlier receiver of the same save
AllCandidatesCollide(call) ==
    \E r \in 1..Len(call.assign.c) :
        /\ call.cfg.recv[r].grafana[1] = ""
        /\ \A i \in 1..Retries :
              call.gens[r][i] \in {call.assign.c[k].grafana[1] : k \in 1..(r - 1)}

\* C8: for an integration without a UID at most 5 candidates are generated;
\* when all 5 collide with UIDs seen in this save,
\* SaveAndApplyAlertmanagerConfiguration returns an error and calls neither
\* the live Alertmanager nor the permission adapter: the stored
\* configuration, the live configuration and the permissions are as they were.
C8_RetriesExhausted ==
    [][Called("Save")
          => /\ mcall'.assign.maxCalls <= Retries
             /\ (AllCandidatesCollide(mcall') \/ mcall'.assign.status = "failed")
                   => /\ mcall'.err = "assignUidsFailed"
                      /\ mcall'.events = <<>>
                      /\ store' = store
                      /\ live' = live
                      /\ perms' = perms]_vars

\* C8 witness: the second receiver of a save got the first one's UID five times
C8_Witness ==
    /\ mcall.op = "Save"
    /\ mcall.fault = "none"
    /\ mcall.err = "assignUidsFailed"
    /\ mcall.assign.maxCalls = Retries
    /\ mcall.assign.r = 2
    /\ mcall.assign.seen = {"u1"}

\* C9: in SaveAndApplyAlertmanagerConfiguration,
\* ActivateHistoricalConfiguration and SaveAndApplyDefaultConfig every call
\* on the permission adapter comes after the live Alertmanager's
\* save-and-apply call has returned without error; when that call returns an
\* error, or is not made, the permission adapter is not called.
C9_PermissionsAfterApply ==
    mcall.op \in Reconciling
        => LET applied == Ev(ApplyCall(mcall.op), "ok") IN
           \A i \in DOMAIN mcall.events :
               mcall.events[i].call \in PermCalls
                   => \E j \in 1..(i - 1) : mcall.events[j] = applied

\* C9 witnesses: a save, an activation and a reset to the default each called
\* the permission adapter
C9_Witness ==
    /\ mcall.op = "Save"
    /\ Len(mcall.events) = 3
    /\ mcall.events[1] = Ev("SaveAndApplyConfig", "ok")
    /\ mcall.events[2].call = "DeleteResourcePermissions"
    /\ mcall.events[3].call = "SetDefaultPermissions"

\* the configuration a call asked the live Alertmanager to save and apply
Requested(call) ==
    CASE call.op = "Save" -> Serialize([call.cfg EXCEPT !.recv = call.assign.c])
      [] call.op = "Activate" -> call.row
      [] OTHER -> DefaultDoc

\* C10: when the live Alertmanager's save-and-apply call has returned without
\* error, the three handlers return no error and the new configuration is
\* the stored and the live one, whatever fails in reconciling the
\* permissions (loading the previous configuration, extracting receiver
\* names, deleting or installing permissions).
C10_ReconcileNeverFailsTheCall ==
    [][(mcall.op = "none" /\ mcall'.op \in Reconciling
            /\ \E i \in DOMAIN mcall'.events : mcall'.events[i] = Ev(ApplyCall(mcall'.op), "ok"))
          => /\ mcall'.err = "ok"
             /\ store'[mcall'.org] = Requested(mcall')
             /\ live'[mcall'.org] = Requested(mcall')]_vars

\* C10 witness: deleting the permissions of a removed receiver failed, and
\* the call that removed it returned no error
C10_Witness ==
    /\ mcall.op \in Reconciling
    /\ mcall.fault = "deletePerm"
    /\ \E i \in DOMAIN mcall.events : mcall.events[i].call = "DeleteResourcePermissions"
    /\ mcall.err = "ok"
    /\ store[mcall.org] = Requested(mcall)
    /\ perms[mcall.org] # PermsOf(store[mcall.org])

(***************************************************************************)
(* Claims on the extra configurations (under SpecExtra)                    *)
(***************************************************************************)
\* the org of the call has a stored configuration, it can be read and it loads
CurrentLoads(cs, call) ==
    /\ call.fault # "getLatest"
    /\ cs[call.org] # NoConfig
    /\ LoadOk(cs[call.org])

\* C5: SaveAndApplyExtraConfiguration with identifier X, on a current
\* configuration (one that is stored, can be read and loads) that holds an
\* extra configuration with another identifier,
\* returns the multiple-extra-configurations error, whose public data names
\* such an identifier (the first one), and applies nothing; when every extra
\* configuration of the current configuration has identifier X, or there is
\* none, and no collaborator fails, it returns no error and the stored extra
\* configurations are the supplied one alone.
C5_OneExtraConfiguration ==
    [][(mcall.op = "none" /\ mcall'.op = "SaveExtra" /\ CurrentLoads(store, mcall'))
          => LET existing == store[mcall'.org].extra
                 others == {i \in DOMAIN existing : existing[i].id # mcall'.extra.id}
             IN
             IF others # {}
             THEN /\ mcall'.err = "multipleExtraConfigsUnsupported"
                  /\ mcall'.data = existing[CHOOSE i \in others : \A j \in others : i <= j].id
                  /\ mcall'.events = <<>>
                  /\ store' = store
                  /\ live' = live
             ELSE mcall'.fault = "none"
                     => /\ mcall'.err = "ok"
                        /\ store'[mcall'.org].extra = <<mcall'.extra>>
                        /\ live'[mcall'.org] = store'[mcall'.org]]_vars

\* C5 witness: an extra configuration x was refused because y is there
C5_Witness ==
    /\ mcall.op = "SaveExtra"
    /\ mcall.extra.id = "x"
    /\ mcall.err = "multipleExtraConfigsUnsupported"
    /\ mcall.data = "y"
    /\ store[mcall.org].extra = <<Extra("y", 2)>>

(***************************************************************************)
(* Claims on assignReceiverConfigsUIDs (under SpecUID)                     *)
(***************************************************************************)
\* the integrations of a batch
Slots(c) == UNION {{<<r, g>> : g \in 1..Len(c[r].grafana)} : r \in 1..Len(c)}
UidAt(c, slot) == c[slot[1]].grafana[slot[2]]

\* C7: when every integration of the batch came without a UID and
\* assignReceiverConfigsUIDs returns nil, whatever the generator returned,
\* every integration has a UID and no two have the same.
C7_DistinctGeneratedUIDs ==
    (uidf.status = "ok" /\ \A slot \in Slots(uidf.given) : UidAt(uidf.given, slot) = "")
        => /\ \A slot \in Slots(uidf.c) : UidAt(uidf.c, slot) # ""
           /\ \A s1, s2 \in Slots(uidf.c) :
                 s1 # s2 => UidAt(uidf.c, s1) # UidAt(uidf.c, s2)

\* C7 witness: three integrations without a UID got theirs, one of them after
\* the generator had returned a UID already taken
C7_Witness ==
    /\ uidf.status = "ok"
    /\ \A slot \in Slots(uidf.given) : UidAt(uidf.given, slot) = ""
    /\ Cardinality(Slots(uidf.c)) = 3
    /\ uidf.maxCalls >= 2

(***************************************************************************)
(* Claims on the route service (under SpecRoute)                           *)
(***************************************************************************)
\* the route a call names exists in the stored configuration of the call's org
RouteStored(cs, c) ==
    /\ cs[c.org] # NoConfig
    /\ RouteName(c.name) \in DOMAIN cs[c.org].routes
\* the version of that stored route
StoredVersion(cs, c) == RevGetManagedRoute(cs[c.org], RouteName(c.name)).version

\* the step is an UpdateManagedRoute call carrying a version that is not the
\* stored version of the route it names
StaleUpdate ==
    /\ rcall'.op = "Update"
    /\ rcall'.version # NoVersion
    /\ RouteStored(store, rcall')
    /\ rcall'.version # StoredVersion(store, rcall')

\* C1 as stated: an UpdateManagedRoute call with a non-empty expectedVersion
\* that differs from the stored version fails with the version-conflict error
\* and leaves the stored configuration and the provenance records as they
\* were (no store call failing).
C1_AsStated ==
    [][(StaleUpdate /\ rcall'.fault = "none")
          => (rcall'.err = "versionConflict" /\ store' = store /\ prov' = prov)]_vars

\* C1 amended: such a call always fails and leaves the stored configuration
\* and the provenance records as they were; the error is the version conflict
\* when the subtree is valid and the configuration store can be read (an
\* invalid subtree is rejected first, with the invalid-format error).
C1_StaleUpdateFailsUnchanged ==
    [][StaleUpdate
          => /\ rcall'.err # "ok"
             /\ store' = store
             /\ prov' = prov
             /\ (Validate(rcall'.subtree) /\ rcall'.fault # "get")
                   => rcall'.err = "versionConflict"
             /\ ~Validate(rcall'.subtree) => rcall'.err = "invalidFormat"]_vars

\* C1 witness: a stale update of a route that has a provenance record was
\* refused with the version conflict
C1_Witness ==
    /\ rcall.op = "Update"
    /\ rcall.err = "versionConflict"
    /\ rcall.version # NoVersion
    /\ RouteName(rcall.name) \in DOMAIN prov[rcall.org]
    /\ prov[rcall.org][RouteName(rcall.name)] # rcall.p

\* C2: an UpdateManagedRoute call with no version never ends in a version
\* conflict; when the route exists, the subtree is valid, the provenance
\* transition is allowed, the merge check passes and no store call fails, the
\* call succeeds and GetManagedRoute then returns the caller's subtree.
C2_NoVersionLastWriterWins ==
    [][(rcall'.op = "Update" /\ rcall'.version = NoVersion)
          => /\ rcall'.err # "versionConflict"
             /\ ( /\ RouteStored(store, rcall')
                  /\ Validate(rcall'.subtree)
                  /\ ValidateProvenance(
                        GetProvenance(prov, rcall'.org, RouteName(rcall'.name)), rcall'.p)
                  /\ MergedOk(RevUpdateNamedRoute(store[rcall'.org], RouteName(rcall'.name),
                                                  rcall'.subtree))
                  /\ rcall'.fault = "none" )
                => LET got == GetManagedRoute(store', prov', rcall'.org, rcall'.name, "none") IN
                   /\ rcall'.err = "ok"
                   /\ got.err = "ok"
                   /\ got.ret.subtree = rcall'.subtree]_vars

\* C2 witness: an update without a version has replaced a subtree that an
\* earlier update had written (the stored route no longer is the default)
C2_Witness ==
    /\ rcall.op = "Update"
    /\ rcall.version = NoVersion
    /\ rcall.err = "ok"
    /\ rcall.name = "r1"
    /\ store[rcall.org].routes["r1"] = rcall.subtree
    /\ store[rcall.org].routes[UserDefinedRoutingTreeName] # DefaultRoute

\* C6: after a successful DeleteManagedRoute of the user-defined tree,
\* GetManagedRoute of it succeeds and returns the route of the default
\* configuration; after a successful DeleteManagedRoute of any other tree,
\* GetManagedRoute of that name fails with route-not-found.
C6_DeleteThenGet ==
    [][(rcall'.op = "Delete" /\ rcall'.err = "ok")
          => LET got == GetManagedRoute(store', prov', rcall'.org, rcall'.name, "none") IN
             IF RouteName(rcall'.name) = UserDefinedRoutingTreeName
             THEN got.err = "ok" /\ got.ret.subtree = DefaultRoute
             ELSE got.err = "notFound"]_vars

\* C6 witness: the user-defined tree was deleted while it held a tree other
\* than the default one (the call carried that tree's version)
C6_Witness ==
    /\ rcall.op = "Delete"
    /\ rcall.err = "ok"
    /\ RouteName(rcall.name) = UserDefinedRoutingTreeName
    /\ rcall.version \notin {NoVersion, Fingerprint(DefaultRoute)}
    /\ "r1" \in DOMAIN store[rcall.org].routes

\* the step is a call of a handler that writes
Mutating == rcall.op = "none" /\ rcall'.op \in {"Create", "Update", "Delete"}
\* the provenance store after the write the call makes in its transaction
ProvenanceWritten(ps, c) ==
    IF c.op = "Delete"
    THEN DeleteProvenance(ps, c.org, RouteName(c.name))
    ELSE SetProvenance(ps, c.org, RouteName(c.name), c.p)

\* C11: in CreateManagedRoute, UpdateManagedRoute and DeleteManagedRoute the
\* Save of the configuration and the write of the provenance record are
\* atomic: a call that returns an error (the provenance write failing after
\* Save among them) leaves both stores as they were, and a call that returns
\* no error has made both writes.
C11_SaveAndProvenanceAtomic ==
    [][Mutating
          => /\ rcall'.fault \in {"save", "writeProvenance"} => rcall'.err # "ok"
             /\ rcall'.err # "ok" => (store' = store /\ prov' = prov)
             /\ rcall'.err = "ok"
                   => /\ prov' = ProvenanceWritten(prov, rcall')
                      /\ store'[rcall'.org] # NoConfig]_vars

\* C11 witness: the provenance write of an update failed in the transaction,
\* and the route and its provenance record are not the ones of the call
C11_Witness ==
    /\ rcall.op = "Update"
    /\ rcall.fault = "writeProvenance"
    /\ rcall.err = "txError"
    /\ store[rcall.org].routes[RouteName(rcall.name)] # rcall.subtree
    /\ GetProvenance(prov, rcall.org, RouteName(rcall.name)) # rcall.p

\* the revision a writing call has in memory once it has applied its change
ChangedRevision(cs, c) ==
    CASE c.op = "Create" -> RevCreateManagedRoute(cs[c.org], c.name, c.subtree)
      [] c.op = "Update" -> RevUpdateNamedRoute(cs[c.org], RouteName(c.name), c.subtree)
      [] OTHER -> DeletedRevision(cs[c.org], RouteName(c.name))
\* the call gets as far as applying its change to the revision
ChangeApplies(cs, c) ==
    /\ cs[c.org] # NoConfig
    /\ IF c.op = "Create"
       THEN c.name \notin DOMAIN cs[c.org].routes
       ELSE RouteName(c.name) \in DOMAIN cs[c.org].routes
\* main and extra configuration do not merge: there is an extra configuration
\* and a route that clashes with it
Incompatible(rev) ==
    /\ rev.extra # <<>>
    /\ \E n \in DOMAIN rev.routes : rev.routes[n].clash

\* C12: when the revision a Create, Update or Delete of a managed route has
\* changed in memory does not merge with the extra configuration, the call
\* returns an error and has written neither the configuration store nor the
\* provenance store.
C12_MergeCheckedBeforeWrite ==
    [][(Mutating /\ ChangeApplies(store, rcall')
            /\ Incompatible(ChangedRevision(store, rcall')))
          => /\ rcall'.err # "ok"
             /\ store' = store
             /\ prov' = prov]_vars

\* C12 witness: a delete that passed every earlier check was refused because
\* what it leaves does not merge
C12_Witness ==
    /\ rcall.op = "Delete"
    /\ rcall.fault = "none"
    /\ rcall.err = "mergeInvalid"
    /\ RouteName(rcall.name) = UserDefinedRoutingTreeName
    /\ store[rcall.org] = ClashingDoc

(***************************************************************************)
(* More claims on the orchestrator (under SpecMoa)                         *)
(***************************************************************************)
\* the live Alertmanager's save-and-apply call of the call has returned no error
Applied(call) ==
    \E i \in DOMAIN call.events : call.events[i] = Ev(ApplyCall(call.op), "ok")
\* the receiver names of a posted configuration
PostedNames(cfg) == {cfg.recv[i].name : i \in 1..Len(cfg.recv)}

\* C13 as stated: when SaveAndApplyAlertmanagerConfiguration is called for an
\* org that has no stored configuration and the apply succeeds, the call
\* returns no error and SetDefaultPermissions is called for every receiver
\* name of the saved configuration.
C13_AsStated ==
    [][(Called("Save") /\ store[mcall'.org] = NoConfig /\ Applied(mcall'))
          => /\ mcall'.err = "ok"
             /\ \A n \in PostedNames(mcall'.cfg) :
                   \E i \in DOMAIN mcall'.events :
                       mcall'.events[i] = Ev("SetDefaultPermissions", NameToUid(n))]_vars

\* C13, what the handler does: such a call returns no error, stores the
\* configuration, does not call cleanPermissions and leaves the permissions
\* as they were.
C13_FirstSaveSkipsPermissions ==
    [][(Called("Save") /\ store[mcall'.org] = NoConfig /\ Applied(mcall'))
          => /\ mcall'.err = "ok"
             /\ store'[mcall'.org] = Requested(mcall')
             /\ ~mcall'.cleaned
             /\ PermEvents(mcall'.events) = <<>>
             /\ perms' = perms]_vars

\* C13 witness: the first configuration of an org was saved with two
\* receivers, and neither holds permissions
C13_Witness ==
    /\ mcall.op = "Save"
    /\ mcall.err = "ok"
    /\ mcall.fault = "none"
    /\ PostedNames(mcall.cfg) = {"A", "B"}
    /\ store[mcall.org] = Requested(mcall)
    /\ perms[mcall.org] = {}
    /\ ~mcall.cleaned

\* exactly the receivers of the org's stored configuration hold permissions
PermissionsInSync(cs, pm, org) ==
    /\ cs[org] # NoConfig
    /\ ExtractOk(cs[org])
    /\ pm[org] = PermsOf(cs[org])
\* the step is a call of one of the three handlers that returns no error, in
\* a state where the permissions are in sync
SyncedCall ==
    /\ mcall.op = "none"
    /\ mcall'.op \in Reconciling
    /\ mcall'.err = "ok"
    /\ PermissionsInSync(store, perms, mcall'.org)

DocsAtHand == ({store[o] : o \in Orgs} \cup {mcall.row}) \ {NoConfig}
\* the receiver names of the document are well-formed (the document is JSON)
WellFormedNames(doc) == doc.shape \in {"ok", "badOther"}
\* the documents with the receiver-name list of doc and well-formed names,
\* whatever their other sections
SameNames(doc) ==
    {Doc(shape, doc.recv, extra, DefaultRoutes) :
        shape \in {"ok", "badOther"}, extra \in SeqsUpTo(ExtraConfigs, 1)}

UidsOf(events, call) ==
    {events[i].arg : i \in {j \in DOMAIN events : events[j].call = call}}

C18_ActivateErrors ==
    [][Called("Activate")
          => /\ mcall'.err = "rejected"
                   <=> (\E i \in DOMAIN mcall'.events :
                            mcall'.events[i] = Ev("SaveAndApplyConfig", "error"))
             /\ mcall'.err = "rejected"
                   <=> (mcall'.fault \in AmFaults /\ mcall'.row.shape = "ok")
             /\ (mcall'.fault = "getHistorical" \/ mcall'.row.shape # "ok")
                   => /\ mcall'.err \notin {"ok", "rejected"}
                      /\ mcall'.events = <<>>
             /\ mcall'.err # "ok"
                   => /\ PermEvents(mcall'.events) = <<>>
                      /\ perms' = perms
                      /\ store' = store]_vars

\* C18 witness: the live Alertmanager refused a row whose receivers are not
\* those of the stored configuration
C18_Witness ==
    /\ mcall.op = "Activate"
    /\ mcall.err = "rejected"
    /\ mcall.row.recv = <<"B">>
    /\ store[mcall.org] # NoConfig
    /\ store[mcall.org].recv = <<"A">>
    /\ perms[mcall.org] = {NameToUid("A")}

(***************************************************************************)
(* Claims on the reading handlers (under SpecRead)                         *)
(***************************************************************************)
\* the rows of a sequence that convert to a read model without error
Convertible(ps, org, rows, fault) ==
    SelectSeq(rows,
              LAMBDA r : GettableUserConfigFromAMConfigString(ps, org, r, fault).err = "ok")

\* C19: GetAppliedAlertmanagerConfigurations returns no error exactly when
\* the fetch from the store does not fail; its result then is made, in the
\* store's order, of the rows the store returned (at most limit) that convert
\* to a read model without error, each under its id: a row that does not
\* convert is left out and nothing else is.
C19_InvalidRowsSkipped ==
    gcall.op = "GetApplied"
        => /\ gcall.err = "ok" <=> gcall.fault # "fetch"
           /\ gcall.err = "ok"
                 => LET rows == GetAppliedConfigurations(history, gcall.org, gcall.limit)
                        kept == Convertible(prov, gcall.org, rows, gcall.fault)
                    IN
                    /\ Len(rows) <= gcall.limit
                    /\ Len(gcall.list) = Len(kept)
                    /\ \A i \in 1..Len(kept) :
                          /\ gcall.list[i].id = kept[i].id
                          /\ gcall.list[i].cfg
                                = GettableUserConfigFromAMConfigString(
                                      prov, gcall.org, kept[i], gcall.fault).cfg

\* C19 witness: of two rows the later one does not parse, and the result is
\* the earlier one alone
C19_Witness ==
    /\ gcall.op = "GetApplied"
    /\ gcall.err = "ok"
    /\ gcall.fault = "none"
    /\ gcall.limit = 2
    /\ Len(history[gcall.org]) = 2
    /\ ~LoadOk(history[gcall.org][1])
    /\ Len(gcall.list) = 1
    /\ gcall.list[1].id = history[gcall.org][2].id
    /\ gcall.list[1].cfg.receivers # <<>>

\* two secure settings differ at most in their non-empty values
SameButSecret(e1, e2) ==
    \/ e1 = e2
    \/ /\ DecryptOk(e1) /\ DecryptOk(e2)
       /\ Decrypted(e1) # "" /\ Decrypted(e2) # ""
\* the documents that differ from raw at most in the non-empty values of the
\* secure settings of their receivers
SecretVariants(raw) ==
    {Row(raw.id, b.shape, b.recv, b.extra) : b \in
        {b \in RowBodies :
            /\ b.shape = raw.shape
            /\ b.extra = raw.extra
            /\ Len(b.recv) = Len(raw.recv)
            /\ \A r \in 1..Len(raw.recv) :
                  /\ b.recv[r].name = raw.recv[r].name
                  /\ Len(b.recv[r].grafana) = Len(raw.recv[r].grafana)
                  /\ \A g \in 1..Len(raw.recv[r].grafana) :
                        /\ b.recv[r].grafana[g].uid = raw.recv[r].grafana[g].uid
                        /\ DOMAIN b.recv[r].grafana[g].secure
                              = DOMAIN raw.recv[r].grafana[g].secure
                        /\ \A k \in DOMAIN raw.recv[r].grafana[g].secure :
                              SameButSecret(b.recv[r].grafana[g].secure[k],
                                            raw.recv[r].grafana[g].secure[k])}}
\* every string a read model holds
StringsIn(cfg) ==
    {cfg.routeProvenance}
        \cup {cfg.receivers[r].name : r \in 1..Len(cfg.receivers)}
        \cup UNION {{cfg.receivers[r].grafana[g].uid : g \in 1..Len(cfg.receivers[r].grafana)} :
                       r \in 1..Len(cfg.receivers)}
        \cup UNION {UNION {cfg.receivers[r].grafana[g].secureFields :
                              g \in 1..Len(cfg.receivers[r].grafana)} :
                       r \in 1..Len(cfg.receivers)}

\* C20: when GetAlertmanagerConfiguration returns a read model, it returns
\* the same one for every stored configuration that differs only in the
\* non-empty values of secure settings; the read model of an integration
\* lists a secure-setting key exactly when its decrypted value is not empty,
\* and no decrypted value is among the strings of the read model.
C20_SecretsNeverReturned ==
    (gcall.op = "Get" /\ gcall.err = "ok")
        => LET raw == history[gcall.org][1] IN
           /\ \A other \in SecretVariants(raw) :
                 LET got == GetAlertmanagerConfiguration(
                                [history EXCEPT ![gcall.org][1] = other], prov, gcall.org,
                                gcall.withAutogen, gcall.fault)
                 IN got.err = "ok" /\ got.cfg = gcall.cfg
           /\ gcall.cfg.merged
                 => /\ Len(gcall.cfg.receivers) = Len(raw.recv)
                    /\ \A r \in 1..Len(raw.recv) : \A g \in 1..Len(raw.recv[r].grafana) :
                          \A k \in SecureKeys :
                              k \in gcall.cfg.receivers[r].grafana[g].secureFields
                                 <=> /\ k \in DOMAIN raw.recv[r].grafana[g].secure
                                     /\ Decrypted(raw.recv[r].grafana[g].secure[k]) # ""
           /\ StringsIn(gcall.cfg) \cap Secrets = {}

\* C20 witness: the configuration read has a password and a token set, and
\* another stored password would have given the same read model
C20_Witness ==
    /\ gcall.op = "Get"
    /\ gcall.err = "ok"
    /\ gcall.cfg.merged
    /\ gcall.cfg.receivers[1].grafana[1].secureFields = SecureKeys
    /\ Decrypted(history[gcall.org][1].recv[1].grafana[1].secure["password"]) = "s2"
    /\ Cardinality(SecretVariants(history[gcall.org][1])) >= 2

(***************************************************************************)
(* Claims on ApplyConfig (under SpecApply)                                 *)
(***************************************************************************)
\* the calls made on the org's instance during the call in flight
InstanceCalls(call) ==
    SelectSeq(call.events, LAMBDA e : e.call = "ApplyConfig")

\* C21: ApplyConfig: when the lookup of the org's instance reports
\* "alertmanager not ready" the configuration is still applied to the
\* instance and the call's result is the result of that apply (nil, and the
\* instance runs the configuration, or the apply's error); when the lookup
\* fails with any other error that error is returned and the instance's
\* ApplyConfig is never called.
C21_NotReadyTolerated ==
    [][(mcall.op = "none" /\ mcall'.op = "ApplyConfig") =>
         /\ (mcall'.fault \in {"amNotReady", "amNotReadyReject"} =>
                /\ Len(InstanceCalls(mcall')) = 1
                /\ (InstanceCalls(mcall')[1].arg = "ok" =>
                       mcall'.err = "ok" /\ live'[mcall'.org] = mcall'.row)
                /\ (InstanceCalls(mcall')[1].arg = "error" =>
                       mcall'.err = "applyFailed" /\ live' = live)
                /\ (InstanceCalls(mcall')[1].arg = "error"
                       <=> (mcall'.fault = "amNotReadyReject" \/ ~LoadOk(mcall'.row))))
         /\ (mcall'.fault = "amLookup" =>
                /\ mcall'.err = "amLookupFailed"
                /\ InstanceCalls(mcall') = <<>>
                /\ live' = live)
         /\ store' = store /\ perms' = perms
    ]_vars

\* a configuration was applied to an instance whose lookup was not ready: the
\* call returned nil and the instance runs the configuration, which is not
\* the stored one
C21_Witness ==
    /\ mcall.op = "ApplyConfig"
    /\ mcall.fault = "amNotReady"
    /\ mcall.err = "ok"
    /\ live[mcall.org] = mcall.row
    /\ live[mcall.org] # store[mcall.org]

(***************************************************************************)
(* Claims on the errors of a refused apply (under SpecMoa)                 *)
(***************************************************************************)
\* the live Alertmanager refused the configuration of the call
Refused(call) ==
    \E i \in 1..Len(call.events) : call.events[i] = Ev("SaveAndApplyConfig", "error")

\* C22: when the live Alertmanager rejects
\* SaveAndApplyAlertmanagerConfiguration because a receiver (a time interval)
\* a rule refers to does not exist in the new configuration, the error is
\* the receiver-in-use (time-interval-in-use) error whose public data names
\* exactly the receiver (interval) the Alertmanager's error refers to; every
\* other apply failure is returned as AlertmanagerConfigRejectedError; in
\* all three cases no permission is changed.
C22_RefusedApplyErrors ==
    [][(Called("Save") /\ Refused(mcall'))
          => /\ mcall'.fault \in AmFaults
             /\ (mcall'.fault = "amReceiverInUse" =>
                    mcall'.err = "receiverInUse" /\ mcall'.data = AmReference)
             /\ (mcall'.fault = "amIntervalInUse" =>
                    mcall'.err = "timeIntervalInUse" /\ mcall'.data = AmReference)
             /\ (mcall'.fault = "amReject" => mcall'.err = "rejected")
             /\ PermEvents(mcall'.events) = <<>>
             /\ perms' = perms]_vars

\* C22 witness: a save that drops receiver A, which holds permissions, was
\* refused because a rule refers to A
C22_Witness ==
    /\ mcall.op = "Save"
    /\ mcall.fault = "amReceiverInUse"
    /\ mcall.err = "receiverInUse"
    /\ mcall.data = "A"
    /\ "A" \notin PostedNames(mcall.cfg)
    /\ NameToUid("A") \in perms[mcall.org]

(***************************************************************************)
(* More claims on the route service (under SpecRoute)                      *)
(***************************************************************************)
\* the call that starts in this step is op on a route the stored
\* configuration does not have, and no store call fails
OnMissingRoute(ops) ==
    /\ rcall.op = "none"
    /\ rcall'.op \in ops
    /\ rcall'.fault = "none"
    /\ store[rcall'.org] # NoConfig
    /\ RouteName(rcall'.name) \notin DOMAIN store[rcall'.org].routes

\* C23, as stated: GetManagedRoute, UpdateManagedRoute and DeleteManagedRoute
\* called with a name for which the current configuration has no managed
\* route each fail with the route-not-found error kind, and write nothing to
\* the configuration store or the provenance store.
C23_AsStated ==
    [][OnMissingRoute({"Get", "Update", "Delete"})
          => rcall'.err = "notFound" /\ store' = store /\ prov' = prov]_vars

\* C23, what the code does: on a missing route GetManagedRoute and
\* DeleteManagedRoute fail with the route-not-found kind; UpdateManagedRoute
\* fails too, but with the invalid-format error for a subtree that does not
\* validate and with an error of no kind otherwise; none of them writes.
C23_MissingRouteFails ==
    [][OnMissingRoute({"Get", "Update", "Delete"})
          => /\ (rcall'.op \in {"Get", "Delete"} => rcall'.err = "notFound")
             /\ (rcall'.op = "Update" =>
                    rcall'.err = IF Validate(rcall'.subtree)
                                 THEN "getExistingFailed"
                                 ELSE "invalidFormat")
             /\ rcall'.ret = NilRoute
             /\ store' = store
             /\ prov' = prov]_vars

\* C23 witness: an update with a valid subtree of a route that does not exist
\* has failed
C23_Witness ==
    /\ rcall.op = "Update"
    /\ rcall.fault = "none"
    /\ rcall.name = "r1"
    /\ Validate(rcall.subtree)
    /\ "r1" \notin DOMAIN store[rcall.org].routes
    /\ rcall.err = "getExistingFailed"

\* the transition from the provenance stored for the route of the call that
\* starts in this step to the provenance the call carries is one the service
\* does not allow: the route has a provenance, and the caller's is another
TransitionRefused ==
    LET stored == GetProvenance(prov, rcall'.org, RouteName(rcall'.name)) IN
    stored # ProvenanceNone /\ stored # rcall'.p

\* C24: UpdateManagedRoute and DeleteManagedRoute check the transition from
\* the route's stored provenance to the caller's provenance before changing
\* anything: when the pair is refused the operation fails and the stored
\* configuration and the provenance records are unchanged, with the
\* validator's error when nothing else fails before; in particular a route
\* whose stored provenance is file is neither updated nor deleted by a call
\* carrying API provenance.
C24_ProvenanceTransitionChecked ==
    [][(rcall.op = "none" /\ rcall'.op \in {"Update", "Delete"} /\ TransitionRefused)
          => /\ rcall'.err # "ok"
             /\ store' = store
             /\ prov' = prov
             /\ rcall'.err \notin {"mergeInvalid", "txError"}
             /\ ((/\ rcall'.fault = "none"
                   /\ Validate(rcall'.subtree)
                   /\ rcall'.version = NoVersion)
                    => rcall'.err = "provenanceInvalid")]_vars

\* C24 witness: a route recorded as provisioned from a file was to be
\* deleted through the API, and the validator refused
C24_Witness ==
    /\ rcall.op = "Delete"
    /\ rcall.p = ProvenanceAPI
    /\ GetProvenance(prov, rcall.org, RouteName(rcall.name)) = ProvenanceFile
    /\ rcall.err = "provenanceInvalid"

\* C25: after a successful DeleteManagedRoute of any route, the default tree
\* included (it is reset, not removed), the provenance store holds no record
\* for that route, so that a following GetManagedRoute of the default tree
\* reports provenance none.
C25_DeleteClearsProvenance ==
    [][(rcall.op = "none" /\ rcall'.op = "Delete" /\ rcall'.err = "ok")
          => LET org == rcall'.org
                 name == RouteName(rcall'.name)
                 got == GetManagedRoute(store', prov', org, name, "none")
             IN
             /\ name \notin DOMAIN prov'[org]
             /\ \A n \in DOMAIN prov[org] \ {name} :
                    n \in DOMAIN prov'[org] /\ prov'[org][n] = prov[org][n]
             /\ (name = UserDefinedRoutingTreeName =>
                    /\ got.err = "ok"
                    /\ got.ret.provenance = ProvenanceNone
                    /\ got.ret.subtree = DefaultRoute)
             /\ (name # UserDefinedRoutingTreeName => got.err = "notFound")]_vars

\* C25 witness: the default tree was deleted by a call carrying file
\* provenance while another route keeps its record
C25_Witness ==
    /\ rcall.op = "Delete"
    /\ rcall.err = "ok"
    /\ RouteName(rcall.name) = UserDefinedRoutingTreeName
    /\ rcall.p = ProvenanceFile
    /\ DOMAIN prov[rcall.org] = {"r1"}

\* the error kinds CreateManagedRoute fails with
CreateErrors == {"invalidFormat", "storeError", "routeExists", "mergeInvalid", "txError"}

\* C26: after a successful CreateManagedRoute(name, subtree, p),
\* GetManagedRoute(name) returns a route with that subtree and provenance p; a
\* CreateManagedRoute that fails (invalid subtree, name already used,
\* incompatible merge, or a failing store) leaves the stored routes and the
\* provenance records unchanged.
C26_CreateThenGet ==
    [][(rcall.op = "none" /\ rcall'.op = "Create")
          => LET org == rcall'.org
                 got == GetManagedRoute(store', prov', org, rcall'.name, "none")
             IN
             /\ (rcall'.err = "ok" =>
                    /\ got.err = "ok"
                    /\ got.ret.name = rcall'.name
                    /\ got.ret.subtree = rcall'.subtree
                    /\ got.ret.provenance = rcall'.p
                    /\ rcall'.name \notin DOMAIN store[org].routes)
             /\ (rcall'.err # "ok" =>
                    /\ rcall'.err \in CreateErrors
                    /\ store' = store
                    /\ prov' = prov)
             /\ (~Validate(rcall'.subtree) => rcall'.err = "invalidFormat")
             /\ ((/\ Validate(rcall'.subtree)
                   /\ rcall'.fault # "get"
                   /\ rcall'.name \in DOMAIN store[org].routes)
                    => rcall'.err = "routeExists")
             /\ rcall'.fault \in {"save", "writeProvenance"} => rcall'.err # "ok"]_vars

\* C26 witness: route r1 was created with API provenance
C26_Witness ==
    /\ rcall.op = "Create"
    /\ rcall.err = "ok"
    /\ rcall.name = "r1"
    /\ rcall.p = ProvenanceAPI
    /\ "r1" \in DOMAIN store[rcall.org].routes
    /\ store[rcall.org].routes["r1"] = rcall.subtree
    /\ prov[rcall.org]["r1"] = ProvenanceAPI

\* the routes the call in flight returned
Returned(call) ==
    IF call.op = "List"
    THEN {call.rets[i] : i \in 1..Len(call.rets)}
    ELSE {call.ret}

\* C27: GetManagedRoute and GetManagedRoutes annotate every returned route
\* with the provenance currently recorded for it in the provenance store, and
\* with provenance none when the store has no record for that route;
\* GetManagedRoutes returns every route of the stored configuration; neither
\* changes the configuration store or the provenance store.
C27_ReadsAnnotateProvenance ==
    [][(rcall.op = "none" /\ rcall'.op \in {"Get", "List"})
          => LET org == rcall'.org IN
             /\ store' = store
             /\ prov' = prov
             /\ (rcall'.err = "ok" =>
                    /\ \A r \in Returned(rcall') :
                          /\ r.name \in DOMAIN store[org].routes
                          /\ r.subtree = store[org].routes[r.name]
                          /\ r.provenance = IF r.name \in DOMAIN prov[org]
                                            THEN prov[org][r.name]
                                            ELSE ProvenanceNone
                    /\ (rcall'.op = "List" =>
                           /\ {r.name : r \in Returned(rcall')} = DOMAIN store[org].routes
                           /\ Len(rcall'.rets) = Cardinality(DOMAIN store[org].routes))
                    /\ (rcall'.op = "Get" => rcall'.ret.name = RouteName(rcall'.name)))
             /\ (rcall'.err # "ok" => rcall'.ret = NilRoute /\ rcall'.rets = <<>>)]_vars

\* C27 witness: a listing returned two routes, one with a recorded
\* provenance and one without a record
C27_Witness ==
    /\ rcall.op = "List"
    /\ rcall.err = "ok"
    /\ Len(rcall.rets) = 2
    /\ \E i, j \in 1..2 :
          /\ rcall.rets[i].provenance = ProvenanceFile
          /\ rcall.rets[j].provenance = ProvenanceNone
          /\ rcall.rets[j].name \notin DOMAIN prov[rcall.org]

(***************************************************************************)
(* Claims on concurrent callers of the extra configuration                 *)
(* (under SpecExtraRace)                                                   *)
(***************************************************************************)
\* C28: starting from a configuration with at most one extra configuration,
\* after any sequence and any interleaving of SaveAndApplyExtraConfiguration
\* and DeleteExtraConfiguration calls, the latest stored configuration holds
\* at most one extra configuration and never two entries with the same
\* identifier.
C28_AtMostOneExtra ==
    \A org \in Orgs :
        store[org] # NoConfig =>
            LET configs == store[org].extra IN
            /\ Len(configs) <= 1
            /\ \A i, j \in 1..Len(configs) : configs[i].id = configs[j].id => i = j

\* C28 witness: two saves with different identifiers ran interleaved (one
\* after the other, the second would have been refused) and both returned
\* nil; the stored configuration holds one of the two
C28_Witness ==
    /\ xcall["c1"].pc = "done" /\ xcall["c1"].op = "SaveExtra" /\ xcall["c1"].err = "ok"
    /\ xcall["c2"].pc = "done" /\ xcall["c2"].op = "SaveExtra" /\ xcall["c2"].err = "ok"
    /\ xcall["c1"].extra.id # xcall["c2"].extra.id
    /\ Len(store["org1"].extra) = 1

(***************************************************************************)
(* More claims on the reading handlers (under SpecRead)                    *)
(***************************************************************************)
\* the lookups mergeProvenance makes on the provenance store
ProvenanceLookups == {"routeProv", "cpProvs", "tmplProvs", "mtProvs"}

\* the read that starts in this step gets as far as mergeProvenance, where
\* one of the lookups fails: the latest configuration is there, loads and
\* decrypts
LookupFails(lookups) ==
    /\ gcall.op = "none"
    /\ gcall'.op = "Get"
    /\ gcall'.fault \in lookups
    /\ history[gcall'.org] # <<>>
    /\ LoadOk(history[gcall'.org][1])
    /\ ~SomeGarbled(history[gcall'.org][1])

\* C29, as stated: if any provenance-store lookup (route, receivers,
\* templates or mute-timings) fails while the read model is built,
\* GetAlertmanagerConfiguration returns an error; it never reports success
\* with an empty or partially filled configuration.
C29_AsStated ==
    [][LookupFails(ProvenanceLookups) => gcall'.err # "ok"]_vars

\* C29, what the code does: a failing lookup of the route's or the receivers'
\* provenance makes GetAlertmanagerConfiguration return the error; a failing
\* lookup of the templates' or the mute timings' provenance makes it return
\* nil and the empty configuration, whatever the stored one holds.
C29_LookupFailures ==
    [][LookupFails(ProvenanceLookups)
          => /\ (gcall'.fault \in {"routeProv", "cpProvs"} =>
                    gcall'.err = "provStoreError" /\ gcall'.cfg = EmptyGettable)
             /\ (gcall'.fault \in {"tmplProvs", "mtProvs"} =>
                    /\ gcall'.err = "ok"
                    /\ gcall'.cfg = [EmptyGettable EXCEPT !.autogen = gcall'.withAutogen])
             /\ history' = history]_vars

\* C29 witness: the lookup of the templates' provenance failed, and the read
\* of a stored configuration that has a receiver returned nil and a
\* configuration without receivers
C29_Witness ==
    /\ gcall.op = "Get"
    /\ gcall.fault = "tmplProvs"
    /\ gcall.err = "ok"
    /\ gcall.cfg.receivers = <<>>
    /\ history[gcall.org] # <<>>
    /\ LoadOk(history[gcall.org][1])
    /\ history[gcall.org][1].recv # <<>>

(***************************************************************************)
(* Claims on concurrent callers of the route service                       *)
(* (under SpecRouteRace)                                                   *)
(***************************************************************************)
\* the caller's call has committed: it returned nil after its transaction
Committed(c) == wcall[c].pc \in {"done", "returned"} /\ wcall[c].err = "ok"
\* the caller carried a version, and it was the stored version of the route
\* when the caller read the configuration
FreshVersion(c) ==
    LET w == wcall[c] IN
    /\ w.version # NoVersion
    /\ w.rev # NoConfig
    /\ w.name \in DOMAIN w.rev.routes
    /\ w.version = Fingerprint(w.rev.routes[w.name])
\* the revision the caller saves differs from the one it read
Changing(c) == wcall[c].newRev # wcall[c].rev
\* two calls on the same route with the same version
SameTarget(c, d) ==
    /\ c # d
    /\ wcall[c].org = wcall[d].org
    /\ wcall[c].name = wcall[d].name
    /\ wcall[c].version = wcall[d].version

NamesOf(cfg) == {cfg.recv[i].name : i \in 1..Len(cfg.recv)}
\* both callers have returned from calls for the same org that posted
\* different receiver sets
BothSavesReturned ==
    /\ \A c \in Callers : scall[c].pc = "returned"
    /\ \A c, d \in Callers :
          c # d => /\ scall[c].org = scall[d].org
                   /\ NamesOf(scall[c].cfg) # NamesOf(scall[d].cfg)
\* one of the two calls was entered after the other had returned
OneAfterTheOther == \E c, d \in Callers : c # d /\ d \in scall[c].after

\* C31, as stated: once two SaveAndApplyAlertmanagerConfiguration calls for
\* the same org with different receiver sets have both returned, however
\* their steps interleaved, the receivers holding permissions are the
\* receivers of the configuration that is latest (the adapter never fails).
C31_AsStated ==
    BothSavesReturned =>
        \A c \in Callers : perms[scall[c].org] = PermsOf(store[scall[c].org])

\* C31, what the handler keeps: the same, for two calls of which one was
\* entered after the other had returned.
C31_SequentialSavesInSync ==
    (BothSavesReturned /\ OneAfterTheOther) =>
        \A c \in Callers : perms[scall[c].org] = PermsOf(store[scall[c].org])

\* two calls, one after the other, both applied, have moved the permissions
\* from the receivers of the first configuration to those of the second
C31_Witness ==
    /\ BothSavesReturned
    /\ "c1" \in scall["c2"].after
    /\ scall["c1"].err = "ok" /\ scall["c2"].err = "ok"
    /\ scall["c1"].cfg.recv[1].name = "A"
    /\ store["org1"] = Serialize(scall["c2"].cfg)
    /\ perms["org1"] = {NameToUid("B")}


(***************************************************************************)
(* Claims on the orchestrator's mutex (under SpecDefaultLock)              *)
(***************************************************************************)
\* the caller is between RLock and its return
InsideDefault(c) == dcall[c].pc \in {"lookup", "previous", "apply", "reconcile"}

\* C32: a SaveAndApplyDefaultConfig call holds the shared lock from before
\* the instance lookup until it returns and on no return path keeps it (a
\* caller holds the lock exactly while it is inside the handler); the writer
\* holds the mutex only when no reader does, and a writer that waits for the
\* mutex gets it in the end.
C32_ReadLockReleasedOnEveryReturn ==
    /\ [](\A c \in Callers : InsideDefault(c) <=> c \in mtx.readers)
    /\ [](mtx.writer = "held" => mtx.readers = {})
    /\ (mtx.writer = "waiting" ~> mtx.writer = "held")

\* both calls have returned, one at the failed lookup and one at the failed
\* apply, and the writer holds the mutex
C32_Witness ==
    /\ dcall["c1"].pc = "returned" /\ dcall["c1"].err = "amLookupFailed"
    /\ dcall["c2"].pc = "returned" /\ dcall["c2"].err = "applyDefaultFailed"
    /\ mtx = [readers |-> {}, writer |-> "held"]


(***************************************************************************)
(* Claims on the extra configuration (under SpecExtra)                     *)
(***************************************************************************)
\* the main Alertmanager configuration of a document: the document without
\* its extra configurations
MainOf(doc) == [doc EXCEPT !.extra = <<>>]
\* the step is a call of one of the two handlers of the extra configuration
\* that returns nil
ExtraApplied ==
    /\ Called("SaveExtra") \/ Called("DeleteExtra")
    /\ mcall'.err = "ok"

\* C33: a successful SaveAndApplyExtraConfiguration or
\* DeleteExtraConfiguration stores and applies a configuration whose main
\* configuration is that of the configuration that was latest at the call;
\* it calls the permission adapter not once and leaves the permissions alone.
C33_MainConfigurationPreserved ==
    [][ExtraApplied =>
          /\ MainOf(store'[mcall'.org]) = MainOf(store[mcall'.org])
          /\ MainOf(live'[mcall'.org]) = MainOf(store[mcall'.org])
          /\ PermEvents(mcall'.events) = <<>>
          /\ perms' = perms]_vars

\* an extra configuration was replaced in a configuration with the receivers
\* A and B, which are still there
C33_Witness ==
    /\ mcall.op = "SaveExtra" /\ mcall.err = "ok"
    /\ store[mcall.org] = Doc("ok", <<"A", "B">>, <<Extra("x", 2)>>, DefaultRoutes)
    /\ live[mcall.org] = store[mcall.org]


\* the identifiers of a list of extra configurations
IdsOf(configs) == {configs[i].id : i \in 1..Len(configs)}
\* the current configuration can be read and loads
LoadsCurrent(doc) == doc # NoConfig /\ LoadOk(doc)

\* C34: after a successful DeleteExtraConfiguration(org, identifier) the
\* applied configuration has no extra configuration with the identifier and
\* has, in their order, the extra configurations with another identifier that
\* were there; on a current configuration that loads and does not have the
\* identifier the call succeeds (no collaborator failing) and leaves the list
\* as it was.
C34_DeleteExtraFilters ==
    [][Called("DeleteExtra") =>
          LET org == mcall'.org
              identifier == mcall'.extra.id
          IN
          /\ mcall'.err = "ok" =>
                /\ identifier \notin IdsOf(store'[org].extra)
                /\ store'[org].extra =
                      SelectSeq(store[org].extra, LAMBDA e : e.id # identifier)
                /\ live'[org] = store'[org]
          /\ (/\ LoadsCurrent(store[org])
              /\ identifier \notin IdsOf(store[org].extra)
              /\ mcall'.fault \in {"none", "amNotReady"}) =>
                /\ mcall'.err = "ok"
                /\ store'[org].extra = store[org].extra]_vars

\* "x" was deleted from a list that had "x" and "y": "y" is what is left
C34_Witness ==
    /\ mcall.op = "DeleteExtra" /\ mcall.err = "ok" /\ mcall.extra.id = "x"
    /\ store[mcall.org].extra = <<Extra("y", 1)>>
    /\ live[mcall.org] = store[mcall.org]


(***************************************************************************)
(* Claims on the route service, continued (under SpecRoute)                *)
(***************************************************************************)
\* the step is an UpdateManagedRoute call that returns a route
Updated == rcall = NoCall /\ rcall'.op = "Update" /\ rcall'.err = "ok"
\* what GetManagedRoute(name) returns right after the step
GetAfter == GetManagedRoute(store', prov', rcall'.org, rcall'.name, "none")

\* C35, as stated: the route a successful UpdateManagedRoute returns is the
\* route a following GetManagedRoute returns, provenance included.
C35_AsStated ==
    [][Updated => GetAfter.err = "ok" /\ GetAfter.ret = rcall'.ret]_vars

\* C35, what the handler returns: the route a following GetManagedRoute
\* returns but for the provenance, which is the one that was stored before
\* the call, while the following read has the provenance p the call persisted.
C35_UpdateReturnsStoredProvenance ==
    [][Updated =>
          /\ GetAfter.err = "ok"
          /\ [GetAfter.ret EXCEPT !.provenance = ProvenanceNone]
                = [rcall'.ret EXCEPT !.provenance = ProvenanceNone]
          /\ rcall'.ret.subtree = rcall'.subtree
          /\ rcall'.ret.provenance = GetProvenance(prov, rcall'.org, RouteName(rcall'.name))
          /\ GetAfter.ret.provenance = rcall'.p]_vars

\* an update with provenance "api" of a route that had no provenance record
\* has returned the route with provenance none; the record now says "api"
C35_Witness ==
    /\ rcall.op = "Update" /\ rcall.err = "ok" /\ rcall.p = ProvenanceAPI
    /\ rcall.ret.provenance = ProvenanceNone
    /\ GetProvenance(prov, rcall.org, RouteName(rcall.name)) = ProvenanceAPI
    /\ rcall.ret.subtree = Subtree(1, TRUE, FALSE)


(***************************************************************************)
(* Claims on assignReceiverConfigsUIDs, continued (under SpecUID)          *)
(***************************************************************************)
\* the call has returned nil on a batch in which some integrations came with
\* a UID and others without
MixedBatchAssigned ==
    /\ uidf.status = "ok"
    /\ \E slot \in Slots(uidf.given) : UidAt(uidf.given, slot) = ""
    /\ \E slot \in Slots(uidf.given) : UidAt(uidf.given, slot) # ""
\* every integration that came with a UID still has it
GivenUIDsKept ==
    \A slot \in Slots(uidf.given) :
        UidAt(uidf.given, slot) # "" => UidAt(uidf.c, slot) = UidAt(uidf.given, slot)
\* slot s1 stands before slot s2 in the batch
Before(s1, s2) == s1[1] < s2[1] \/ (s1[1] = s2[1] /\ s1[2] < s2[2])

\* C36, as stated: after a successful call on a mixed batch every
\* pre-supplied UID is kept and the UIDs of all integrations of the batch are
\* pairwise distinct.
C36_AsStated ==
    MixedBatchAssigned =>
        /\ GivenUIDsKept
        /\ \A s1, s2 \in Slots(uidf.c) : s1 # s2 => UidAt(uidf.c, s1) # UidAt(uidf.c, s2)

\* C36, what the function ensures: every pre-supplied UID is kept, every
\* integration has a UID, and a generated UID differs from the UID of every
\* integration that stands before it in the batch.
C36_GeneratedDifferFromEarlier ==
    MixedBatchAssigned =>
        /\ GivenUIDsKept
        /\ \A slot \in Slots(uidf.c) : UidAt(uidf.c, slot) # ""
        /\ \A s1, s2 \in Slots(uidf.c) :
              (UidAt(uidf.given, s2) = "" /\ Before(s1, s2))
                  => UidAt(uidf.c, s1) # UidAt(uidf.c, s2)

\* a mixed batch of three integrations was assigned pairwise distinct UIDs, the
\* generator having returned a UID already seen on the way
C36_Witness ==
    /\ MixedBatchAssigned
    /\ Cardinality(Slots(uidf.c)) = 3
    /\ Cardinality({UidAt(uidf.c, slot) : slot \in Slots(uidf.c)}) = 3
    /\ uidf.maxCalls >= 2


(***************************************************************************)
(* Claims on both services (under SpecOrgs)                                *)
(***************************************************************************)
\* the org the call made in this step is for
CalledOrg ==
    IF rcall' # NoCall THEN rcall'.org
    ELSE IF mcall'.op # "none" THEN mcall'.org
    ELSE gcall'.org

\* C37: a call of any handler of the route service or of the orchestrator for
\* an org leaves the stored configuration, the configuration history, the
\* provenance records and the receiver permissions of every other org as they
\* were, whatever the call returns.
C37_OtherOrgsUntouched ==
    [][\A b \in Orgs :
          b # CalledOrg =>
              /\ store'[b] = store[b]
              /\ history'[b] = history[b]
              /\ prov'[b] = prov[b]
              /\ perms'[b] = perms[b]]_vars

\* a save for org1 has taken the permissions from receiver A there, while
\* org2 still has its receivers A and B, their permissions, its provenance
\* record and its history
C37_Witness ==
    /\ mcall.op = "Save" /\ mcall.org = "org1" /\ mcall.err = "ok"
    /\ \E i \in 1..Len(mcall.events) :
          mcall.events[i] = Ev("DeleteResourcePermissions", NameToUid("A"))
    /\ NameToUid("A") \notin perms["org1"]
    /\ store["org2"] # NoConfig /\ store["org2"].recv = <<"A", "B">>
    /\ perms["org2"] = {NameToUid("A"), NameToUid("B")}
    /\ prov["org2"] # <<>>
    /\ history["org2"] = OrgHistory


\* the step is a ResetPolicyTree call
Reset == rcall = NoCall /\ rcall'.op = "ResetPolicyTree"
\* what GetPolicyTree returns right after the step
TreeAfter == GetPolicyTree(store', prov', rcall'.org, "none")

\* C38: ResetPolicyTree never returns the version-conflict error, whatever
\* tree is stored, and when it returns nil the following GetPolicyTree returns
\* the route it returned: the route of the default configuration.
C38_ResetThenGetPolicyTree ==
    [][Reset =>
          /\ rcall'.err # "versionConflict"
          /\ rcall'.err = "ok" =>
                /\ TreeAfter.err = "ok"
                /\ AsAMRoute(TreeAfter.ret) = AsAMRoute(rcall'.ret)
                /\ AsAMRoute(rcall'.ret) = DefaultRoute]_vars

\* a reset has succeeded on an org that has the named route r1 as well and a
\* provenance record for it; the tree read back is the default route
C38_Witness ==
    /\ rcall.op = "ResetPolicyTree" /\ rcall.err = "ok"
    /\ AsAMRoute(rcall.ret) = DefaultRoute
    /\ GetPolicyTree(store, prov, rcall.org, "none").ret = PolicyTree(DefaultRoute, Fingerprint(DefaultRoute))
    /\ "r1" \in DOMAIN store[rcall.org].routes
    /\ UserDefinedRoutingTreeName \notin DOMAIN prov[rcall.org]


(***************************************************************************)
(* Claims on syncQuery (under SpecSync)                                    *)
(***************************************************************************)
\* max(1, ceil(logsTimeout / 1s))
MaxPolls(logsTimeout) ==
    IF logsTimeout <= Second THEN 1 ELSE (logsTimeout + Second - 1) \div Second
\* the step is a poll, the n-th of the call
Polled(n) == sync.pc = "poll" /\ sync'.polls = n /\ sync.polls = n - 1

\* C39: once the query has started, syncQuery returns in the end. Every tick
\* is followed by one poll; poll number n is the last one exactly when it
\* fails, reports a terminated status or n seconds are not less than
\* logsTimeout, and in the last case (alone) the error is the timeout error.
\* So the call makes at most max(1, ceil(logsTimeout / 1s)) polls, and one
\* poll when logsTimeout is at most a second.
C39_SyncQueryTerminates ==
    /\ (sync.pc = "wait" ~> sync.pc = "returned")
    /\ [](sync.pc # "idle" => sync.polls <= MaxPolls(sync.logsTimeout))
    /\ []((sync.pc = "returned" /\ sync.err # "startQueryFailed"
             /\ sync.logsTimeout <= Second) => sync.polls = 1)
    /\ [][\A n \in 1..(MaxTimeout + 1) :
             Polled(n) =>
                /\ sync'.pc = "returned" <=>
                      \/ sync'.err = "getQueryResultsFailed"
                      \/ IsTerminated(sync'.status)
                      \/ n * Second >= sync.logsTimeout
                /\ sync'.err = "timeoutExceeded" <=>
                      /\ sync'.status # "" /\ ~IsTerminated(sync'.status)
                      /\ n * Second >= sync.logsTimeout
                /\ sync.attemptCount = n]_vars

\* with a timeout of two and a half seconds the third poll, still running,
\* has ended the call with the timeout error
C39_Witness ==
    /\ sync.pc = "returned" /\ sync.err = "timeoutExceeded"
    /\ sync.logsTimeout = 2 * Second + 1
    /\ sync.polls = 3 /\ sync.status = "Running"


====
